---- MODULE Spec2Model ----
(***************************************************************************)
(* A model of RemarkableSync: the incremental backup run                   *)
(* (remarkable_backup.py, backup/backup_manager.py), the hybrid converter  *)
(* (hybrid_converter.py), the folder hierarchy resolvers and the rmc       *)
(* converter (convert_to_pdf.py).                                          *)
(*                                                                         *)
(* Several specifications share the module; each moves its own variables and  *)
(* leaves the others at rest:                                              *)
(*   Spec          the backup run: connect, list, resolve, download, save, *)
(*                 run_pdf_conversion, and the next run                    *)
(*   SpecHier      get_folder_hierarchy / build_folder_path, one loop      *)
(*                 iteration per step                                      *)
(*   SpecPdf       convert_to_pdf.convert_notebook_to_pdf                  *)
(*   SpecConv      hybrid_converter.main: which notebooks are converted    *)
(*   SpecNotebook  hybrid_converter.convert_notebook, one page per step    *)
(*   SpecRetry     the backup run, remembering a converter timeout         *)
(*   SpecTrack     the notebook identification of the download loop        *)
(*   SpecOrganize  organize_notebooks_by_structure, called on two          *)
(*                 orderings of the same descriptors                       *)
(*   SpecTemplate  the template overlay of the v5 and v6 page loops        *)
(*   SpecOutput    the output paths the conversion loop writes             *)
(***************************************************************************)
EXTENDS Integers, Sequences, FiniteSets, TLC

(***************************************************************************)
(* Bounds of the model.                                                    *)
(***************************************************************************)
\* backup runs of one behaviour
MaxRuns == 2
\* changes the environment makes between runs (remote edits, local damage)
MaxEnv == 1

VARIABLES
    \* ---- the backup run ----
    pc,          \* position of the backup process
    remote,      \* the tablet: path -> [present, mtime, size]
    localFs,     \* files_dir: path -> [exists, content, readable]
    data,        \* FileMetadata.data: path -> [has, mtime, size, hash]
    disk,        \* sync_metadata.json: [state, map]
    listing,     \* remote_files of this run
    selected,    \* files_to_sync as resolved, a sequence of listing entries
    hashed,      \* paths whose local file should_sync_file hashed
    queue,       \* files_to_sync still to download
    downloaded,  \* paths whose scp get succeeded in this run
    failedDl,    \* paths whose scp get was attempted and failed in this run
    updated,     \* updated_notebooks
    result,      \* what run_backup returned: "none", "ok", "fail"
    opts,        \* [convert, force]: run_backup's arguments
    conv,        \* [script, invoked, all, ids, outcome]: the converter subprocess
    runs,        \* runs started
    envCount,    \* environment changes made
    backupOk,    \* backup_files returned success in this run
    fatal,       \* what made backup_files return failure in this run, "none" if nothing
    prev,        \* the previous run, as the next run's claims need it
    persisted    \* paths the store file held a record of when this run started

\* the variables one run sets and the next run starts afresh
runVars == <<listing, selected, hashed, queue, downloaded, failedDl, updated, result,
             opts, conv, backupOk, fatal>>

syncVars == <<pc, remote, localFs, data, disk, runVars, runs, envCount, prev, persisted>>

VARIABLES
    \* ---- get_folder_hierarchy / build_folder_path ----
    hFn,         \* which of the two functions runs
    hParent,     \* uuid -> the 'parent' field of its descriptor
    hKnown,      \* uuids whose descriptor can be looked up
    hBlank,      \* uuids whose visibleName has no character that is kept
    hStart,      \* the 'parent' of the notebook the call is made for
    hCur,        \* current_uuid / current_parent
    hPath,       \* hierarchy / path_components
    hSteps,      \* loop bodies executed
    hPc          \* "loop", "done"

hierVars == <<hFn, hParent, hKnown, hBlank, hStart, hCur, hPath, hSteps, hPc>>

VARIABLES
    \* ---- convert_to_pdf.convert_notebook_to_pdf ----
    pdPc,        \* "start", "whole", "pages", "info", "done", "raised"
    pdRm,        \* rm_files: the page numbers 1..n
    pdTodo,      \* pages the per-page loop has still to visit
    pdPagePdfs,  \* page_pdfs
    pdDoc,       \* <safe_name>.pdf: "absent", "small", "good"
    pdPageFile,  \* page -> state of <safe_name>_page_NNN.pdf
    pdInfo,      \* <safe_name>_info.txt exists
    pdRet        \* the value returned

pdfVars == <<pdPc, pdRm, pdTodo, pdPagePdfs, pdDoc, pdPageFile, pdInfo, pdRet>>

VARIABLES
    \* ---- hybrid_converter.main ----
    cvPc,        \* "start", "loaded", "filtered", "converting", "exit0", "exit1", "done"
    cvBackup,    \* the *.metadata files in glob order: sequence of [uuid, type, pages]
    cvArg,       \* --updated-only: [given, exists, readable, ids]
    cvSample,    \* --sample
    cvUpdated,   \* updated_uuids: [some, ids]
    cvItems,     \* all_items
    cvQueue,     \* notebooks the loop has still to convert
    cvConverted  \* uuids convert_notebook was called for, in order

convVars == <<cvPc, cvBackup, cvArg, cvSample, cvUpdated, cvItems, cvQueue, cvConverted>>

VARIABLES
    \* ---- hybrid_converter.convert_notebook ----
    nbPc,        \* "start", "v5", "v6", "v4", "pdfs", "merge", "note", "cleanup",
                 \* "returned", "raised"
    nbVersion,   \* page -> version in the header of its .rm file
    nbContent,   \* 'pages' of the .content file; <<>> when it cannot be used
    nbPdfs,      \* number of existing PDFs of the notebook
    nbTodo,      \* what the current loop has still to visit
    nbIdx,       \* enumerate index of the current loop
    nbTempPdfs,  \* temp_pdfs
    nbTempDir,   \* the files in temp_pages
    nbDirExists, \* temp_pages exists
    nbDoc,       \* pages of the merged PDF, <<>> when there is none
    nbOut,       \* results['output_files']
    nbRaising,   \* an exception is propagating through the finally block
    nbCalls      \* the converter calls made: [page, conv, ok]

nbVars == <<nbPc, nbVersion, nbContent, nbPdfs, nbTodo, nbIdx, nbTempPdfs, nbTempDir,
            nbDirExists, nbDoc, nbOut, nbRaising, nbCalls>>

VARIABLES
    \* ---- the notebook identification of the download loop ----
    tkPc,        \* "loop", "done"
    tkQueue,     \* files_to_sync still to visit: indices of PathTable
    tkGot,       \* paths whose download succeeded
    tkUpdated    \* updated_notebooks
trackVars == <<tkPc, tkQueue, tkGot, tkUpdated>>

VARIABLES
    \* ---- hybrid_converter.organize_notebooks_by_structure ----
    ogPc,        \* "off", "ready", "loop", "returned", "looping"
    ogParent,    \* uuid -> the 'parent' field of <uuid>.metadata in the backup
    ogBlank,     \* uuids whose visibleName has no character that is kept
    ogDocs,      \* uuids whose type is DocumentType
    ogInputs,    \* the two input sequences: the same descriptors, permuted
    ogCall,      \* which of the two calls runs
    ogTodo,      \* items the loop of this call has still to visit
    ogSeen,      \* uuids the loop of this call has visited
    ogFolder     \* per call: uuid -> item['folder_path'], "unset" before it is set
orgVars == <<ogPc, ogParent, ogBlank, ogDocs, ogInputs, ogCall, ogTodo, ogSeen, ogFolder>>

VARIABLES
    \* ---- src/hybrid_converter.convert_notebook: the templated page loops ----
    tpPc,        \* "off", "start", "v5", "v6", "done"
    tpRenderer,  \* a template_renderer was passed
    tpContent,   \* cPages.pages of .content: the entries in the order of the file
    tpTemplates, \* page_templates: page -> template name, "absent" for no key
    tpOrder,     \* 'pages' of .content: the listed page ids whose .rm file exists
    tpGen,       \* page -> version in the header of its .rm file
    tpTodo,      \* pages the current loop has still to visit
    tpCalls,     \* render_template_to_pdf / merge_pdf_with_template calls made
    tpTemp,      \* temp_pdfs: [page, file], file "content" or "final"
    tpConverted  \* v5_converted + v6_converted
tplVars == <<tpPc, tpRenderer, tpContent, tpTemplates, tpOrder, tpGen, tpTodo, tpCalls, tpTemp, tpConverted>>

VARIABLES
    \* ---- the output files of the conversion loop of hybrid_converter.main ----
    ouPc,        \* "off", "document", "note", "done"
    ouName,      \* notebook -> its visibleName, a sequence of characters
    ouFolder,    \* notebook -> notebook['folder_path']
    ouNoteDue,   \* notebooks with v3 or v4 pages
    ouTodo,      \* notebooks the loop has still to convert
    ouWriters    \* output path -> the notebooks that wrote it
outVars == <<ouPc, ouName, ouFolder, ouNoteDue, ouTodo, ouWriters>>

VARIABLE
    \* ---- history kept for the runs of SpecRetry ----
    lastTimedOut \* updated_notebooks of the run before, if its converter timed out

vars == <<syncVars, hierVars, pdfVars, convVars, nbVars, trackVars, orgVars, tplVars, outVars, lastTimedOut>>

notSync == <<hierVars, pdfVars, convVars, nbVars, trackVars, orgVars, tplVars, outVars, lastTimedOut>>
notHier == <<syncVars, pdfVars, convVars, nbVars, trackVars, orgVars, tplVars, outVars, lastTimedOut>>
notPdf == <<syncVars, hierVars, convVars, nbVars, trackVars, orgVars, tplVars, outVars, lastTimedOut>>
notConv == <<syncVars, hierVars, pdfVars, nbVars, trackVars, orgVars, tplVars, outVars, lastTimedOut>>
notNotebook == <<syncVars, hierVars, pdfVars, convVars, trackVars, orgVars, tplVars, outVars, lastTimedOut>>
notTrack == <<syncVars, hierVars, pdfVars, convVars, nbVars, orgVars, tplVars, outVars, lastTimedOut>>
notOrganize ==
    <<syncVars, hierVars, pdfVars, convVars, nbVars, trackVars, tplVars, outVars, lastTimedOut>>
notTemplate ==
    <<syncVars, hierVars, pdfVars, convVars, nbVars, trackVars, orgVars, outVars, lastTimedOut>>
notOutput ==
    <<syncVars, hierVars, pdfVars, convVars, nbVars, trackVars, orgVars, tplVars, lastTimedOut>>

(***************************************************************************)
(* Values.                                                                 *)
(***************************************************************************)
\* the remote objects: the first two paths of PathTable
Paths == {1, 2}
\* the modification times and the sizes a remote object takes
Stamps == {1, 2}
Sizes == {1, 2}

\* the empty string: the hash get_file_hash returns on OSError, and the
\* default of record.get('hash', '')
EmptyStr == <<>>

\* hashlib.md5(...).hexdigest() of a file whose content is c: injective in the
\* content and never the empty string (a digest has 32 characters)
Md5(c) == <<"md5", c>>

\* the bytes of the remote object with this mtime and size; 0 is kept for a
\* damaged or partial local file
ContentOf(mtime, size) == (mtime - 1) * Cardinality(Sizes) + size
Damaged == 0

AbsentRemote == [present |-> FALSE, mtime |-> 0, size |-> 0]
\* an object as the tablet first holds it
FirstRemote == [present |-> TRUE, mtime |-> 1, size |-> 1]
RemoteVals == {[present |-> TRUE, mtime |-> m, size |-> s] : m \in Stamps, s \in Sizes}

NoLocal == [exists |-> FALSE, content |-> Damaged, readable |-> FALSE]
NoRecord == [has |-> FALSE, mtime |-> 0, size |-> 0, hash |-> EmptyStr]
EmptyData == [p \in Paths |-> NoRecord]

\* the converter subprocess of a run: whether the script was found, whether it
\* was started, with --updated-only <ids> or without (all), and how it ended
NoOpts == [convert |-> FALSE, force |-> FALSE]
NoConv == [script |-> FALSE, invoked |-> FALSE, all |-> FALSE, ids |-> {}, outcome |-> "none"]

(***************************************************************************)
(* Paths relative to the remote root.  A path is a sequence of segments    *)
(* (os.sep), a segment a sequence of dot-separated pieces, a piece a name  *)
(* with its length.                                                        *)
(***************************************************************************)
UuidLen == 36

Piece(t, n) == [txt |-> t, len |-> n]

PathTable ==
    << \* <uuidA>.metadata
       << <<Piece("uuidA", 36), Piece("metadata", 8)>> >>,
       \* <uuidB>/<page>.rm
       << <<Piece("uuidB", 36)>>, <<Piece("page", 36), Piece("rm", 2)>> >>,
       \* version
       << <<Piece("version", 7)>> >>,
       \* <uuidA>.thumbnails/<page>.jpg
       << <<Piece("uuidA", 36), Piece("thumbnails", 10)>>,
          <<Piece("page", 36), Piece("jpg", 3)>> >>,
       \* templates/<name>.template
       << <<Piece("templates", 9)>>, <<Piece("name", 5), Piece("template", 8)>> >>,
       \* notes.txt
       << <<Piece("notes", 5), Piece("txt", 3)>> >>,
       \* a directory whose dotted name has 36 characters, and a page in it
       << <<Piece("left", 17), Piece("right", 18)>>,
          <<Piece("page", 36), Piece("rm", 2)>> >> >>

\* os.path.relpath(remote_file['path'], remote_xochitl_dir).split(os.sep)
path_parts(p) == PathTable[((p - 1) % Len(PathTable)) + 1]

RECURSIVE SumLen(_)
SumLen(seg) == IF seg = <<>> THEN 0 ELSE Head(seg).len + SumLen(Tail(seg))

\* len(segment): the pieces and the dots between them
SegLen(seg) == SumLen(seg) + Len(seg) - 1

Reserved == { <<Piece("templates", 9)>>, <<Piece("version", 7)>> }

\* the identification without the length test
notebook_uuid_any_length(p) ==
    LET parts == path_parts(p)
        first_part == <<Head(parts[1])>>
    IN  IF first_part \notin Reserved THEN first_part ELSE <<>>

\* the notebook identification of backup_files; <<>> stands for None
notebook_uuid(p) ==
    LET parts == path_parts(p)
        first_part == <<Head(parts[1])>>
        top == IF Len(parts) >= 1 /\ SegLen(first_part) = UuidLen
                  /\ first_part \notin Reserved
               THEN first_part ELSE <<>>
    IN  IF Len(parts) >= 2 /\ SegLen(parts[1]) = UuidLen /\ parts[1] \notin Reserved
        THEN parts[1] ELSE top

(***************************************************************************)
(* FileMetadata.                                                           *)
(***************************************************************************)
\* FileMetadata.get_file_hash: the digest, the empty string on OSError
get_file_hash(f) ==
    IF f.exists /\ f.readable THEN Md5(f.content) ELSE EmptyStr

\* should_sync_file hashing the local file as soon as it exists
should_sync_trace_eager(store, rf, lf) ==
    IF ~lf.exists THEN [sync |-> TRUE, hashed |-> FALSE]
    ELSE IF ~store[rf.path].has THEN [sync |-> TRUE, hashed |-> TRUE]
    ELSE IF rf.mtime # store[rf.path].mtime \/ rf.size # store[rf.path].size
         THEN [sync |-> TRUE, hashed |-> TRUE]
    ELSE [sync |-> get_file_hash(lf) # store[rf.path].hash, hashed |-> TRUE]

\* should_sync_file with the metadata check requiring both fields to differ
should_sync_trace_both(store, rf, lf) ==
    IF ~lf.exists THEN [sync |-> TRUE, hashed |-> FALSE]
    ELSE IF ~store[rf.path].has THEN [sync |-> TRUE, hashed |-> FALSE]
    ELSE IF rf.mtime # store[rf.path].mtime /\ rf.size # store[rf.path].size
         THEN [sync |-> TRUE, hashed |-> FALSE]
    ELSE [sync |-> get_file_hash(lf) # store[rf.path].hash, hashed |-> TRUE]

\* FileMetadata.should_sync_file, with whether it hashed the local file
should_sync_trace(store, rf, lf) ==
    IF ~lf.exists THEN [sync |-> TRUE, hashed |-> FALSE]
    ELSE IF ~store[rf.path].has THEN [sync |-> TRUE, hashed |-> FALSE]
    ELSE IF rf.mtime # store[rf.path].mtime \/ rf.size # store[rf.path].size
         THEN [sync |-> TRUE, hashed |-> FALSE]
    ELSE [sync |-> get_file_hash(lf) # store[rf.path].hash, hashed |-> TRUE]

should_sync_file(store, rf, lf) == should_sync_trace(store, rf, lf).sync

\* FileMetadata.update_file_metadata (last_sync, a timestamp no decision
\* reads, is left out)
update_file_metadata(store, rf, lf) ==
    [store EXCEPT ![rf.path] =
        [has |-> TRUE, mtime |-> rf.mtime, size |-> rf.size, hash |-> get_file_hash(lf)]]

\* FileMetadata.load: a missing store file, and one json.load rejects with
\* JSONDecodeError, give the empty mapping
load(d) == IF d.state = "valid" THEN d.map ELSE EmptyData

\* FileMetadata.load raises: the bytes of the store file are not UTF-8, and the
\* UnicodeDecodeError of json.load is neither OSError nor JSONDecodeError
load_raises(d) == d.state = "undecodable"

MissingDisk == [state |-> "missing", map |-> EmptyData]
\* a store file whose bytes were damaged on the medium
UndecodableDisk == [state |-> "undecodable", map |-> EmptyData]
\* the store file opened with 'w' and not yet, or only partly, written
TruncatedDisk == [state |-> "malformed", map |-> EmptyData]
ValidDisk(store) == [state |-> "valid", map |-> store]

\* the paths the store file holds a record of
DiskPaths(d) == {p \in Paths : load(d)[p].has}

(***************************************************************************)
(* ReMarkableConnection.list_files: one entry per remote file, in the      *)
(* order of the find command (here by path); [] when the command fails.    *)
(***************************************************************************)
RECURSIVE ListFrom(_, _)
ListFrom(r, p) ==
    IF p \notin Paths THEN <<>>
    ELSE (IF r[p].present
          THEN <<[path |-> p, mtime |-> r[p].mtime, size |-> r[p].size]>>
          ELSE <<>>) \o ListFrom(r, p + 1)

list_files(r, ok) == IF ok THEN ListFrom(r, 1) ELSE <<>>

\* a filter that passes over the objects that have no record
RECURSIVE Resolve_known_only(_, _, _)
Resolve_known_only(store, fs, l) ==
    IF l = <<>> THEN <<>>
    ELSE (IF store[Head(l).path].has /\ should_sync_file(store, Head(l), fs[Head(l).path])
          THEN <<Head(l)>> ELSE <<>>)
         \o Resolve_known_only(store, fs, Tail(l))

\* the filter loop of backup_files
RECURSIVE Resolve(_, _, _)
Resolve(store, fs, l) ==
    IF l = <<>> THEN <<>>
    ELSE (IF should_sync_file(store, Head(l), fs[Head(l).path]) THEN <<Head(l)>> ELSE <<>>)
         \o Resolve(store, fs, Tail(l))

HashedIn(store, fs, l) ==
    {l[i].path : i \in {j \in 1..Len(l) : should_sync_trace(store, l[j], fs[l[j].path]).hashed}}

SeqPaths(l) == {l[i].path : i \in 1..Len(l)}

\* the previous run, as the next run sees it: whether it ended with
\* backup_files successful; whether it also fetched every object it selected
\* and nothing touched the local files since (quiet); whether, beyond that,
\* the store file held the mapping the run ended with (clean); and its remote
\* listing
NoPrev == [ok |-> FALSE, quiet |-> FALSE, clean |-> FALSE, listing |-> <<>>]

PrevOf ==
    IF backupOk
    THEN [ok |-> TRUE, quiet |-> failedDl = {},
          clean |-> failedDl = {} /\ load(disk) = data, listing |-> listing]
    ELSE NoPrev

(***************************************************************************)
(* The backup run.                                                         *)
(***************************************************************************)
FreshRun ==
    /\ listing = <<>>
    /\ selected = <<>>
    /\ hashed = {}
    /\ queue = <<>>
    /\ downloaded = {}
    /\ failedDl = {}
    /\ updated = {}
    /\ result = "none"
    /\ opts = NoOpts
    /\ conv = NoConv
    /\ backupOk = FALSE
    /\ fatal = "none"

\* a run's variables as the next run finds them
ResetRun ==
    /\ listing' = <<>>
    /\ selected' = <<>>
    /\ hashed' = {}
    /\ queue' = <<>>
    /\ downloaded' = {}
    /\ failedDl' = {}
    /\ updated' = {}
    /\ result' = "none"
    /\ opts' = NoOpts
    /\ conv' = NoConv
    /\ backupOk' = FALSE
    /\ fatal' = "none"

SyncInit ==
    /\ pc = "idle"
    /\ remote \in [Paths -> {FirstRemote, AbsentRemote}]
    /\ localFs = [p \in Paths |-> NoLocal]
    /\ data = EmptyData
    /\ disk = MissingDisk
    /\ FreshRun
    /\ runs = 0
    /\ envCount = 0
    /\ prev = NoPrev
    /\ persisted = {}
    /\ lastTimedOut = {}

\* run_backup is entered and backup_files connects
StartRun ==
    /\ pc = "idle"
    /\ runs < MaxRuns
    /\ \E ok \in BOOLEAN :
        /\ pc' = IF ok THEN "connected" ELSE "finished"
        /\ result' = IF ok THEN "none" ELSE "fail"
        /\ fatal' = IF ok THEN fatal ELSE "connect"
    /\ runs' = runs + 1
    /\ persisted' = DiskPaths(disk)
    /\ UNCHANGED <<remote, localFs, data, disk, envCount, prev>>
    /\ UNCHANGED <<listing, selected, hashed, queue, downloaded, failedDl, updated, opts,
                   conv, backupOk>>
    /\ UNCHANGED notSync

\* list_files and the filter loop; an SSHException of the listing command
\* reaches the outer handler of backup_files
ListAndResolve ==
    /\ pc = "connected"
    /\ \E out \in {"ok", "exit_nonzero", "raise"} :
        IF out = "raise"
        THEN /\ pc' = "finished"
             /\ result' = "fail"
             /\ fatal' = "listing"
             /\ UNCHANGED <<listing, selected, hashed, queue>>
        ELSE /\ listing' = list_files(remote, out = "ok")
             /\ selected' = Resolve(data, localFs, listing')
             /\ hashed' = HashedIn(data, localFs, listing')
             /\ queue' = selected'
             /\ pc' = "resolved"
             /\ UNCHANGED <<result, fatal>>
    /\ UNCHANGED <<remote, localFs, data, disk, runs, envCount, prev, persisted>>
    /\ UNCHANGED <<downloaded, failedDl, updated, opts, conv, backupOk>>
    /\ UNCHANGED notSync

\* "No files found" and "All files are up to date" return (True, set())
Decide ==
    /\ pc = "resolved"
    /\ IF listing = <<>> \/ selected = <<>>
       THEN pc' = "backed_up" /\ backupOk' = TRUE
       ELSE pc' = "downloading" /\ UNCHANGED backupOk
    /\ UNCHANGED <<remote, localFs, data, disk, runs, envCount, prev, persisted>>
    /\ UNCHANGED <<listing, selected, hashed, queue, downloaded, failedDl, updated,
                   result, opts, conv>>
    /\ UNCHANGED fatal
    /\ UNCHANGED notSync

\* the notebook of a path noted before its download is attempted
updated_after_early(ok, upd, p) ==
    IF notebook_uuid(p) # <<>> THEN upd \cup {notebook_uuid(p)} ELSE upd

\* updated_notebooks after one iteration of the download loop: the
\* identification follows scp_client.get inside the try block
updated_after(ok, upd, p) ==
    IF ok /\ notebook_uuid(p) # <<>> THEN upd \cup {notebook_uuid(p)} ELSE upd

\* the record written before the download is attempted
data_after_download_early(store, rf, lf, ok) == update_file_metadata(store, rf, lf)

\* the mapping after one iteration of the download loop:
\* update_file_metadata follows scp_client.get inside the try block, so it is
\* reached only when the download did not raise
data_after_download(store, rf, lf, ok) ==
    IF ok THEN update_file_metadata(store, rf, lf) ELSE store

\* where backup_files goes after one download: paramiko.SSHException reaches
\* the outer handler; otherwise the loop goes on with the next file, and
\* metadata.save() follows the last one
after_download(out, rest) ==
    IF out = "fatal" THEN "finished"
    ELSE IF rest = <<>> THEN "saving"
    ELSE "downloading"

\* one iteration of the download loop.  scp get succeeds (the local copy may
\* then be unreadable to the hashing step), fails with OSError/SCPException
\* (leaving the local file as it was, or a partial file), or raises
\* paramiko.SSHException, which ends backup_files with (False, set())
DownloadOne ==
    /\ pc = "downloading"
    /\ queue # <<>>
    /\ LET rf == Head(queue)
           p == rf.path
       IN \E out \in {"ok", "ok_unreadable", "fail", "fail_partial", "fatal"} :
           LET ok == out \in {"ok", "ok_unreadable"}
           IN
           /\ localFs' =
                CASE ok ->
                       [localFs EXCEPT ![p] = [exists |-> TRUE,
                                               content |-> ContentOf(rf.mtime, rf.size),
                                               readable |-> out = "ok"]]
                  [] out = "fail_partial" ->
                       [localFs EXCEPT ![p] = [exists |-> TRUE, content |-> Damaged,
                                               readable |-> TRUE]]
                  [] OTHER -> localFs
           /\ data' = data_after_download(data, rf, localFs'[p], ok)
           /\ updated' = updated_after(ok, updated, p)
           /\ downloaded' = IF ok THEN downloaded \cup {p} ELSE downloaded
           /\ failedDl' = IF ok THEN failedDl ELSE failedDl \cup {p}
           /\ queue' = Tail(queue)
           /\ pc' = after_download(out, Tail(queue))
           /\ result' = IF out = "fatal" THEN "fail" ELSE result
           /\ fatal' = IF out = "fatal" THEN "transfer" ELSE fatal
    /\ UNCHANGED <<remote, disk, runs, envCount, prev, persisted>>
    /\ UNCHANGED <<listing, selected, hashed, opts, conv, backupOk>>
    /\ UNCHANGED notSync

\* FileMetadata.save, first half: mkdir and open(metadata_file, 'w'), which
\* truncates the store file; an OSError is logged and swallowed
SaveOpen ==
    /\ pc = "saving"
    /\ \E ok \in BOOLEAN :
        /\ disk' = IF ok THEN TruncatedDisk ELSE disk
        /\ pc' = IF ok THEN "writing" ELSE "backed_up"
        /\ backupOk' = IF ok THEN backupOk ELSE TRUE
    /\ UNCHANGED <<remote, localFs, data, runs, envCount, prev, persisted>>
    /\ UNCHANGED <<listing, selected, hashed, queue, downloaded, failedDl, updated,
                   result, opts, conv>>
    /\ UNCHANGED fatal
    /\ UNCHANGED notSync

\* FileMetadata.save, second half: json.dump writes the whole mapping; an
\* OSError part-way is logged and swallowed and leaves a partial file
SaveWrite ==
    /\ pc = "writing"
    /\ \E ok \in BOOLEAN :
        disk' = IF ok THEN ValidDisk(data) ELSE TruncatedDisk
    /\ pc' = "backed_up"
    /\ backupOk' = TRUE
    /\ UNCHANGED <<remote, localFs, data, runs, envCount, prev, persisted>>
    /\ UNCHANGED <<listing, selected, hashed, queue, downloaded, failedDl, updated,
                   result, opts, conv>>
    /\ UNCHANGED fatal
    /\ UNCHANGED notSync

\* ReMarkableBackup.run_pdf_conversion: the converter's command line and the
\* value returned, given whether the script exists, whether the list file can
\* be written and how the subprocess ends
run_pdf_conversion(upd, force, script, writable, out) ==
    IF ~script
    THEN [conv |-> NoConv, ok |-> FALSE]
    ELSE IF force
    THEN [conv |-> [script |-> TRUE, invoked |-> TRUE, all |-> TRUE, ids |-> {},
                    outcome |-> out],
          ok |-> out = "rc0"]
    ELSE IF upd # {}
    THEN IF writable
         THEN [conv |-> [script |-> TRUE, invoked |-> TRUE, all |-> FALSE, ids |-> upd,
                         outcome |-> out],
               ok |-> out = "rc0"]
         ELSE [conv |-> [NoConv EXCEPT !.script = TRUE], ok |-> FALSE]
    ELSE [conv |-> [NoConv EXCEPT !.script = TRUE], ok |-> TRUE]

\* what the subprocess of run_pdf_conversion can do: exit 0, exit non-zero,
\* exceed the timeout, fail to start ("running" stands in conv while
\* subprocess.run has not returned)
ConvOutcomes == {"rc0", "rc1", "timeout", "oserror"}

\* the rest of run_backup after a successful backup_files, up to the start of
\* the converter subprocess; the two flags of run_backup are read here for the
\* first time and are drawn here.  run_backup returns here when no
\* conversion is asked for or run_pdf_conversion returns before subprocess.run
Convert ==
    /\ pc = "backed_up"
    /\ \E c \in BOOLEAN, f \in BOOLEAN :
        /\ opts' = [convert |-> c, force |-> f]
        /\ IF ~c
           THEN result' = "ok" /\ pc' = "finished" /\ UNCHANGED conv
           ELSE \E script \in BOOLEAN, writable \in BOOLEAN :
                   LET r == run_pdf_conversion(updated, f, script, writable, "running")
                   IN  /\ conv' = r.conv
                       /\ IF r.conv.invoked
                          THEN pc' = "converting" /\ UNCHANGED result
                          ELSE /\ pc' = "finished"
                               /\ result' = IF r.ok THEN "ok" ELSE "fail"
    /\ UNCHANGED <<remote, localFs, data, disk, runs, envCount, prev, persisted>>
    /\ UNCHANGED <<listing, selected, hashed, queue, downloaded, failedDl, updated,
                   backupOk>>
    /\ UNCHANGED fatal
    /\ UNCHANGED notSync

\* subprocess.run(cmd_args, timeout=3600) ends and run_pdf_conversion returns
ConvertEnd ==
    /\ pc = "converting"
    /\ \E out \in ConvOutcomes :
        LET r == run_pdf_conversion(updated, opts.force, TRUE, TRUE, out)
        IN  /\ conv' = r.conv
            /\ result' = IF r.ok THEN "ok" ELSE "fail"
    /\ pc' = "finished"
    /\ UNCHANGED <<remote, localFs, data, disk, runs, envCount, prev, persisted>>
    /\ UNCHANGED <<listing, selected, hashed, queue, downloaded, failedDl, updated, opts,
                   backupOk>>
    /\ UNCHANGED fatal
    /\ UNCHANGED notSync

\* KeyboardInterrupt (or a crash) anywhere in the run: the process exits
Abort ==
    /\ pc \in {"connected", "resolved", "downloading", "saving", "writing", "backed_up",
              "converting"}
    /\ pc' = "aborted"
    /\ result' = "interrupted"
    /\ UNCHANGED <<remote, localFs, data, disk, runs, envCount, prev, persisted>>
    /\ UNCHANGED <<listing, selected, hashed, queue, downloaded, failedDl, updated, opts,
                   conv, backupOk>>
    /\ UNCHANGED fatal
    /\ UNCHANGED notSync

\* the store file the next process finds: the one the last process left, or
\* one damaged on the medium since
StoreAtStart == {disk} \cup (IF envCount < MaxEnv THEN {UndecodableDisk} ELSE {})

\* the tool is started again: FileMetadata.__init__ sets self.data = {} and
\* loads the store file; an exception of load ends the process
NewProcess ==
    /\ pc \in {"finished", "aborted"}
    /\ runs < MaxRuns
    /\ \E found \in StoreAtStart :
        /\ disk' = found
        /\ envCount' = IF found = disk THEN envCount ELSE envCount + 1
        /\ pc' = IF load_raises(found) THEN "crashed" ELSE "idle"
        /\ data' = load(found)
    /\ prev' = PrevOf
    /\ ResetRun
    /\ UNCHANGED <<remote, localFs, runs, persisted>>
    /\ UNCHANGED notSync

\* the same restart, with the history of SpecRetry kept: the changed-notebook
\* set of the run that ended, when its converter subprocess timed out
NewProcessNoting ==
    /\ pc \in {"finished", "aborted"}
    /\ runs < MaxRuns
    /\ \E found \in StoreAtStart :
        /\ disk' = found
        /\ envCount' = IF found = disk THEN envCount ELSE envCount + 1
        /\ pc' = IF load_raises(found) THEN "crashed" ELSE "idle"
        /\ data' = load(found)
    /\ prev' = PrevOf
    /\ ResetRun
    /\ lastTimedOut' = IF conv.invoked /\ conv.outcome = "timeout" THEN updated ELSE {}
    /\ UNCHANGED <<remote, localFs, runs, persisted>>
    /\ UNCHANGED <<hierVars, pdfVars, convVars, nbVars, trackVars, orgVars, tplVars, outVars>>

\* between two runs the tablet's files change
RemoteChange ==
    /\ pc = "idle"
    /\ runs >= 1
    /\ envCount < MaxEnv
    /\ \E p \in Paths, v \in RemoteVals \cup {AbsentRemote} :
        /\ v # remote[p]
        /\ remote' = [remote EXCEPT ![p] = v]
    /\ envCount' = envCount + 1
    /\ UNCHANGED <<pc, localFs, data, disk, runVars, runs, prev, persisted>>
    /\ UNCHANGED notSync

\* between two runs a local copy is deleted, damaged or changes readability
LocalDamage ==
    /\ pc = "idle"
    /\ envCount < MaxEnv
    /\ \E p \in Paths :
        /\ localFs[p].exists
        /\ \E v \in {NoLocal,
                      [localFs[p] EXCEPT !.content = Damaged],
                      [localFs[p] EXCEPT !.readable = ~localFs[p].readable]} :
            /\ v # localFs[p]
            /\ localFs' = [localFs EXCEPT ![p] = v]
    /\ envCount' = envCount + 1
    /\ prev' = [prev EXCEPT !.clean = FALSE, !.quiet = FALSE]
    /\ UNCHANGED <<pc, remote, data, disk, runVars, runs, persisted>>
    /\ UNCHANGED notSync

(***************************************************************************)
(* Folder hierarchy resolution: hybrid_converter.get_folder_hierarchy and  *)
(* convert_to_pdf.build_folder_path.                                       *)
(***************************************************************************)
\* loop bodies after which the model stops following a chain
MaxSteps == 5

\* the descriptors of the backup
Uuids == {"a", "b", "c"}
\* values of a 'parent' field: a uuid, the empty string, the trash marker
ParentVals == Uuids \cup {"", "trash"}

\* a list left in the order it was built
Reverse_none(q) == q

RECURSIVE Reverse(_)
\* list.reverse()
Reverse(q) == IF q = <<>> THEN <<>> ELSE Append(Reverse(Tail(q)), Head(q))

HierIdle ==
    /\ hFn = "none"
    /\ hParent = [u \in Uuids |-> ""]
    /\ hKnown = {}
    /\ hBlank = {}
    /\ hStart = ""
    /\ hCur = ""
    /\ hPath = <<>>
    /\ hSteps = 0
    /\ hPc = "off"

\* the call: current_uuid = notebook.get('parent') / current_parent = parent_uuid
HierInit ==
    /\ hFn \in {"get_folder_hierarchy", "build_folder_path"}
    /\ hParent \in [Uuids -> ParentVals]
    /\ hKnown \in SUBSET Uuids
    /\ hBlank \in {{}, {"b"}}
    /\ hStart \in ParentVals
    /\ hCur = hStart
    /\ hPath = <<>>
    /\ hSteps = 0
    /\ hPc = "loop"

\* one evaluation of the while condition of get_folder_hierarchy and, when it
\* holds, one loop body: the metadata file of current_uuid is read (hKnown: it
\* exists and parses), its safe name is inserted at the front, and
\* current_uuid becomes its parent; otherwise break
GetFolderHierarchyStep ==
    /\ hFn = "get_folder_hierarchy"
    /\ hPc = "loop"
    /\ hSteps < MaxSteps
    /\ IF hCur = ""
       THEN /\ hPc' = "done"
            /\ UNCHANGED <<hCur, hPath, hSteps>>
       ELSE /\ hSteps' = hSteps + 1
            /\ IF hCur \in hKnown
               THEN /\ hPath' = IF hCur \in hBlank THEN hPath ELSE <<hCur>> \o hPath
                    /\ hCur' = hParent[hCur]
                    /\ UNCHANGED hPc
               ELSE /\ hPc' = "done"
                    /\ UNCHANGED <<hCur, hPath>>
    /\ UNCHANGED <<hFn, hParent, hKnown, hBlank, hStart>>
    /\ UNCHANGED notHier

\* the same for build_folder_path: the loop also ends at "trash", names are
\* appended, and the list is reversed when the loop is left
BuildFolderPathStep ==
    /\ hFn = "build_folder_path"
    /\ hPc = "loop"
    /\ hSteps < MaxSteps
    /\ IF hCur = "" \/ hCur = "trash"
       THEN /\ hPc' = "done"
            /\ hPath' = Reverse(hPath)
            /\ UNCHANGED <<hCur, hSteps>>
       ELSE /\ hSteps' = hSteps + 1
            /\ IF hCur \in hKnown
               THEN /\ hPath' = IF hCur \in hBlank THEN hPath ELSE Append(hPath, hCur)
                    /\ hCur' = hParent[hCur]
                    /\ UNCHANGED hPc
               ELSE /\ hPc' = "done"
                    /\ hPath' = Reverse(hPath)
                    /\ UNCHANGED hCur
    /\ UNCHANGED <<hFn, hParent, hKnown, hBlank, hStart>>
    /\ UNCHANGED notHier

(***************************************************************************)
(* convert_to_pdf.convert_notebook_to_pdf: whole-document attempt, then    *)
(* per-page attempts, then the info placeholder.                           *)
(***************************************************************************)
\* most .rm files of the notebook
MaxRm == 3

\* states of an output file; svg_to_pdf accepts a PDF of more than 500 bytes
FileStates == {"absent", "small", "good"}

\* how one rmc + svg_to_pdf attempt ends: both succeed; rmc exits non-zero or
\* writes no usable SVG; rmc times out; svg_to_pdf raises before anything is
\* written or lacks its libraries; svg_to_pdf writes a PDF of at most 500
\* bytes; renderPDF.drawToFile raises part-way and what it wrote stays, at
\* most 500 bytes of it or more
AttemptOutcomes == {"ok", "rmc_fail", "timeout", "pdf_fail", "pdf_small",
                    "pdf_cut_small", "pdf_cut_good"}

\* the output file an attempt leaves behind: svg_to_pdf removes nothing
FileAfter(out, before) ==
    CASE out \in {"ok", "pdf_cut_good"} -> "good"
      [] out \in {"pdf_small", "pdf_cut_small"} -> "small"
      [] OTHER -> before

RECURSIVE UpTo(_)
\* <<1, ..., n>>
UpTo(n) == IF n = 0 THEN <<>> ELSE Append(UpTo(n - 1), n)

PdfIdle ==
    /\ pdPc = "off"
    /\ pdRm = 0
    /\ pdTodo = <<>>
    /\ pdPagePdfs = <<>>
    /\ pdDoc = "absent"
    /\ pdPageFile = [i \in 1..MaxRm |-> "absent"]
    /\ pdInfo = FALSE
    /\ pdRet = "none"

PdfInit ==
    /\ pdPc = "start"
    /\ pdRm \in 0..MaxRm
    /\ pdTodo = <<>>
    /\ pdPagePdfs = <<>>
    /\ pdDoc = "absent"
    /\ pdPageFile = [i \in 1..MaxRm |-> "absent"]
    /\ pdInfo = FALSE
    /\ pdRet = "none"

\* steps 1 and 2: the output directory is made (an OSError propagates), and
\* the whole-document attempt is entered only when rm_files is not empty
PdfStart ==
    /\ pdPc = "start"
    /\ \E ok \in BOOLEAN :
        pdPc' = IF ~ok THEN "raised" ELSE IF pdRm > 0 THEN "whole" ELSE "info"
    /\ pdTodo' = UpTo(pdRm)
    /\ UNCHANGED <<pdRm, pdPagePdfs, pdDoc, pdPageFile, pdInfo, pdRet>>
    /\ UNCHANGED notPdf

\* step 3: rmc over the notebook directory, then svg_to_pdf into whole_pdf;
\* on success whole_pdf is returned, otherwise the per-page loop follows
WholeDocumentAttempt ==
    /\ pdPc = "whole"
    /\ \E out \in AttemptOutcomes :
        /\ pdDoc' = FileAfter(out, pdDoc)
        /\ pdPc' = IF out = "ok" THEN "done" ELSE "pages"
        /\ pdRet' = IF out = "ok" THEN "whole_pdf" ELSE pdRet
    /\ UNCHANGED <<pdRm, pdTodo, pdPagePdfs, pdPageFile, pdInfo>>
    /\ UNCHANGED notPdf

\* step 4: one iteration of the per-page loop; after the last page,
\* page_pdfs[0] is returned when page_pdfs is not empty
PerPageAttempt ==
    /\ pdPc = "pages"
    /\ pdTodo # <<>>
    /\ \E out \in AttemptOutcomes :
        LET i == Head(pdTodo)
            pdfs == IF out = "ok" THEN Append(pdPagePdfs, i) ELSE pdPagePdfs
        IN  /\ pdPageFile' = [pdPageFile EXCEPT ![i] = FileAfter(out, pdPageFile[i])]
            /\ pdPagePdfs' = pdfs
            /\ pdTodo' = Tail(pdTodo)
            /\ pdPc' = IF Tail(pdTodo) # <<>> THEN "pages"
                       ELSE IF pdfs # <<>> THEN "done" ELSE "info"
            /\ pdRet' = IF Tail(pdTodo) = <<>> /\ pdfs # <<>> THEN "first_page_pdf"
                        ELSE pdRet
    /\ UNCHANGED <<pdRm, pdDoc, pdInfo>>
    /\ UNCHANGED notPdf

\* how step 5 ends: the info file is written; open() raises and no file is
\* made; open() makes the file and a write or the close of the with block
\* raises (disk full, file size limit), which leaves the file behind
InfoOutcomes == {"ok", "open_fails", "write_fails"}

\* step 5: the info file is written and returned; an OSError of open() or of
\* a write propagates to the caller
WriteInfo ==
    /\ pdPc = "info"
    /\ \E out \in InfoOutcomes :
        /\ pdInfo' = (out # "open_fails")
        /\ pdPc' = IF out = "ok" THEN "done" ELSE "raised"
        /\ pdRet' = IF out = "ok" THEN "info_path" ELSE pdRet
    /\ UNCHANGED <<pdRm, pdTodo, pdPagePdfs, pdDoc, pdPageFile>>
    /\ UNCHANGED notPdf
(***************************************************************************)
(* hybrid_converter.main: the selective-run list, find_notebooks, the      *)
(* filter, the sample limit and the conversion loop.                       *)
(***************************************************************************)
\* the *.metadata files of the backup, named in glob order
MetaFiles == <<"a", "b", "c">>
\* identifiers a list file can hold: two of the backup and one foreign to it
ListIds == {"a", "b", "x"}
\* values of --sample (0: not given)
Samples == {0, 1}
\* what a descriptor is: a document with page or PDF files, a document with
\* none, a folder, a descriptor of another type
Kinds == {[type |-> "DocumentType", content |-> TRUE],
          [type |-> "DocumentType", content |-> FALSE],
          [type |-> "CollectionType", content |-> FALSE],
          [type |-> "unknown", content |-> FALSE]}

NoArg == [given |-> FALSE, exists |-> FALSE, readable |-> FALSE, ids |-> {}]
NoUpdated == [some |-> FALSE, ids |-> {}]

\* find_notebooks: folders, and documents with at least one page or PDF
Found(d) == d.type = "CollectionType" \/ (d.type = "DocumentType" /\ d.content)
find_notebooks(backup) == SelectSeq(backup, Found)

\* organize_notebooks_by_structure(...)['documents_to_convert']
IsDocument(d) == d.type = "DocumentType"
documents_to_convert(items) == SelectSeq(items, IsDocument)

\* notebooks[:sample] when sample is given and positive
apply_sample(nbs, sample) ==
    IF sample > 0 /\ sample < Len(nbs) THEN SubSeq(nbs, 1, sample) ELSE nbs

\* the filter of main: applied only when updated_uuids is a non-empty set
filter_updated(items, upd) ==
    LET Listed(d) == d.uuid \in upd.ids
    IN  IF upd.some /\ upd.ids # {} THEN SelectSeq(items, Listed) ELSE items

ConvIdle ==
    /\ cvPc = "off"
    /\ cvBackup = <<>>
    /\ cvArg = NoArg
    /\ cvSample = 0
    /\ cvUpdated = NoUpdated
    /\ cvItems = <<>>
    /\ cvQueue = <<>>
    /\ cvConverted = <<>>

ConvInit ==
    /\ cvPc = "start"
    /\ \E k \in [1..Len(MetaFiles) -> Kinds] :
        cvBackup = [i \in 1..Len(MetaFiles) |->
                        [uuid |-> MetaFiles[i], type |-> k[i].type,
                         content |-> k[i].content]]
    /\ cvArg \in {NoArg,
                  [given |-> TRUE, exists |-> FALSE, readable |-> FALSE, ids |-> {}],
                  [given |-> TRUE, exists |-> TRUE, readable |-> FALSE, ids |-> {}]}
                 \cup {[given |-> TRUE, exists |-> TRUE, readable |-> TRUE, ids |-> s] :
                          s \in SUBSET ListIds}
    /\ cvSample \in Samples
    /\ cvUpdated = NoUpdated
    /\ cvItems = <<>>
    /\ cvQueue = <<>>
    /\ cvConverted = <<>>

\* main up to the list file: a missing backup directory, a missing list file
\* and an unreadable list file exit with status 1; otherwise updated_uuids is
\* the set of the non-blank lines
LoadUpdated ==
    /\ cvPc = "start"
    /\ \E backupDir \in BOOLEAN :
        IF ~backupDir \/ (cvArg.given /\ ~(cvArg.exists /\ cvArg.readable))
        THEN /\ cvPc' = "exit1"
             /\ UNCHANGED cvUpdated
        ELSE /\ cvPc' = "loaded"
             /\ cvUpdated' = [some |-> cvArg.given, ids |-> cvArg.ids]
    /\ UNCHANGED <<cvBackup, cvArg, cvSample, cvItems, cvQueue, cvConverted>>
    /\ UNCHANGED notConv

\* find_notebooks, the filter, organize_notebooks_by_structure and the
\* sample limit; each empty result exits with status 0
FindAndFilter ==
    /\ cvPc = "loaded"
    /\ LET found == find_notebooks(cvBackup)
           items == filter_updated(found, cvUpdated)
           nbs == apply_sample(documents_to_convert(items), cvSample)
       IN  /\ cvItems' = items
           /\ cvQueue' = nbs
           /\ cvPc' = IF found = <<>> \/ items = <<>> \/ nbs = <<>>
                      THEN "exit0" ELSE "converting"
    /\ UNCHANGED <<cvBackup, cvArg, cvSample, cvUpdated, cvConverted>>
    /\ UNCHANGED notConv

\* one iteration of the conversion loop: convert_notebook returns its
\* results, or raises and ends the process
ConvertNext ==
    /\ cvPc = "converting"
    /\ cvQueue # <<>>
    /\ \E out \in {"results", "raise"} :
        cvPc' = IF out = "raise" THEN "exit1"
                ELSE IF Tail(cvQueue) = <<>> THEN "done" ELSE "converting"
    /\ cvConverted' = Append(cvConverted, Head(cvQueue).uuid)
    /\ cvQueue' = Tail(cvQueue)
    /\ UNCHANGED <<cvBackup, cvArg, cvSample, cvUpdated, cvItems>>
    /\ UNCHANGED notConv

(***************************************************************************)
(* hybrid_converter.convert_notebook: the page loops in the order of the   *)
(* code (v5 ordering list, v6 files, v4 files, existing PDFs), the merge,  *)
(* the unsupported-versions note and the finally block.                    *)
(***************************************************************************)
\* .rm files of the notebook
MaxPages == 2

\* the numbers of existing PDFs of the notebook
PdfCounts == {0, 1}

\* the .rm files of the notebook, named by their place in the glob result
RmFiles == UpTo(MaxPages)
Pages == {RmFiles[i] : i \in 1..Len(RmFiles)}
\* the versions find_notebooks tells apart by the file header
Versions == {3, 4, 5, 6}

\* the orders a .content file can declare the pages in
PageOrders == {q \in [1..Len(RmFiles) -> Pages] : \A i, j \in 1..Len(RmFiles) :
                                                    i # j => q[i] # q[j]}

\* notebook['v5_files'] and its siblings: the glob result, filtered by version
FilesOf(version) ==
    LET Has(p) == nbVersion[p] = version
    IN  SelectSeq(RmFiles, Has)

\* ordered_v5_pages: every page id of .content whose .rm file exists, whatever
\* its version; notebook['v5_files'] when that list is empty
ordered_v5_pages == IF nbContent # <<>> THEN nbContent ELSE FilesOf(5)

\* what each loop of convert_notebook iterates over
Todo(stage) ==
    CASE stage = "v5" -> ordered_v5_pages
      [] stage = "v6" -> FilesOf(6)
      [] stage = "v4" -> FilesOf(4)
      [] stage = "pdfs" -> UpTo(nbPdfs)
      [] OTHER -> <<>>

After(stage) ==
    CASE stage = "v5" -> "v6"
      [] stage = "v6" -> "v4"
      [] stage = "v4" -> "pdfs"
      [] OTHER -> "merge"

RECURSIVE Enter(_)
\* the first loop from this one on that has something to iterate over
Enter(stage) ==
    IF stage = "merge" \/ Todo(stage) # <<>> THEN stage ELSE Enter(After(stage))

\* the prefix of the temporary file names of each loop
Prefix(stage) ==
    CASE stage = "v5" -> "v5_page"
      [] stage = "v6" -> "v6_page"
      [] stage = "v4" -> "v4_page"
      [] OTHER -> "existing"

\* how a call of a page converter ends: what it returned, and which of the
\* files <prefix>_<index>.pdf and <prefix>_<index>.svg it left in temp_pages.
\* A converter returns True only with its PDF written.
Outcomes == {o \in [returned : BOOLEAN, pdf : BOOLEAN, svg : BOOLEAN] : o.returned => o.pdf}

\* convert_v5_file_with_rmrl and convert_v6_file_with_rmc, which go through an
\* intermediate SVG: True with the PDF written; False with nothing written;
\* False with the PDF left behind (renderPDF.drawToFile leaves an empty or
\* cut-short file, or the fallback of the v5 converter fails after opening
\* it); and, with any of these, the SVG left behind (its unlink failed, the
\* SVG step failed after creating it and the v5 fallback took over, rmc
\* failed or timed out after writing it)
SvgOutcomes == Outcomes
\* convert_v4_file_with_rmrl and copy_existing_pdf, which write the PDF
\* themselves: True with the PDF written; False with nothing written; False
\* with a PDF that was opened and not finished
PdfOutcomes == {o \in Outcomes : ~o.svg}

NotebookIdle ==
    /\ nbPc = "off"
    /\ nbVersion = [p \in Pages |-> 5]
    /\ nbContent = <<>>
    /\ nbPdfs = 0
    /\ nbTodo = <<>>
    /\ nbIdx = 0
    /\ nbTempPdfs = <<>>
    /\ nbTempDir = {}
    /\ nbDirExists = FALSE
    /\ nbDoc = <<>>
    /\ nbOut = {}
    /\ nbRaising = FALSE
    /\ nbCalls = {}

NotebookInit ==
    /\ nbPc = "start"
    /\ nbVersion \in [Pages -> Versions]
    /\ nbContent \in {<<>>} \cup PageOrders
    /\ nbPdfs \in PdfCounts
    /\ nbTodo = <<>>
    /\ nbIdx = 0
    /\ nbTempPdfs = <<>>
    /\ nbTempDir = {}
    /\ nbDirExists = FALSE
    /\ nbDoc = <<>>
    /\ nbOut = {}
    /\ nbRaising = FALSE
    /\ nbCalls = {}

\* up to the try block: the output directory and temp_pages are made; an
\* OSError of either mkdir leaves the function before the try block
NbStart ==
    /\ nbPc = "start"
    /\ \E out \in {"ok", "mkdir_output_fails", "mkdir_temp_fails"} :
        /\ nbDirExists' = (out = "ok")
        /\ nbPc' = IF out = "ok" THEN Enter("v5") ELSE "raised"
        /\ nbTodo' = IF out = "ok" THEN Todo(Enter("v5")) ELSE <<>>
        /\ nbIdx' = IF out = "ok" THEN 1 ELSE 0
    /\ UNCHANGED <<nbVersion, nbContent, nbPdfs, nbTempPdfs, nbTempDir, nbDoc, nbOut,
                   nbRaising, nbCalls>>
    /\ UNCHANGED notNotebook

\* temp_pdfs with the temporary file appended whatever the converter returned
temp_pdfs_after_always(ok, pdfs, entry) == Append(pdfs, entry)

\* `if convert_...(rm_file, temp_pdf): temp_pdfs.append(temp_pdf)` with the
\* counter of the loop, which is incremented with the append
temp_pdfs_after(ok, pdfs, entry) == IF ok THEN Append(pdfs, entry) ELSE pdfs

\* one iteration of one of the four loops: the converter of the loop has been
\* applied to the next file with the temporary name <prefix>_<index>.pdf and
\* ended with out
PageStep(stage, out) ==
    /\ nbTempPdfs' = temp_pdfs_after(out.returned, nbTempPdfs,
                                     [gen |-> Prefix(stage), i |-> nbIdx,
                                      page |-> Head(nbTodo)])
    /\ nbCalls' = nbCalls \cup {[page |-> Head(nbTodo), conv |-> stage, ok |-> out.returned]}
    /\ nbTempDir' =
         nbTempDir
            \cup (IF out.pdf THEN {[gen |-> Prefix(stage), i |-> nbIdx, ext |-> "pdf"]}
                  ELSE {})
            \cup (IF out.svg THEN {[gen |-> Prefix(stage), i |-> nbIdx, ext |-> "svg"]}
                  ELSE {})
    /\ IF Tail(nbTodo) # <<>>
       THEN /\ nbTodo' = Tail(nbTodo)
            /\ nbIdx' = nbIdx + 1
            /\ UNCHANGED nbPc
       ELSE /\ nbPc' = Enter(After(stage))
            /\ nbTodo' = Todo(Enter(After(stage)))
            /\ nbIdx' = 1
    /\ UNCHANGED <<nbVersion, nbContent, nbPdfs, nbDirExists, nbDoc, nbOut, nbRaising>>
    /\ UNCHANGED notNotebook

\* convert_v5_file_with_rmrl on the next file of ordered_v5_pages
NbConvertV5 ==
    /\ nbPc = "v5"
    /\ nbTodo # <<>>
    /\ \E out \in SvgOutcomes : PageStep("v5", out)

\* convert_v6_file_with_rmc on the next file of v6_files
NbConvertV6 ==
    /\ nbPc = "v6"
    /\ nbTodo # <<>>
    /\ \E out \in SvgOutcomes : PageStep("v6", out)

\* convert_v4_file_with_rmrl on the next file of v4_files
NbConvertV4 ==
    /\ nbPc = "v4"
    /\ nbTodo # <<>>
    /\ \E out \in PdfOutcomes : PageStep("v4", out)

\* copy_existing_pdf on the next file of pdf_files
NbCopyPdf ==
    /\ nbPc = "pdfs"
    /\ nbTodo # <<>>
    /\ \E out \in PdfOutcomes : PageStep("pdfs", out)

\* whether the unsupported-versions note is due
NoteDue == FilesOf(4) # <<>> \/ FilesOf(3) # <<>>

\* merge_pdfs over temp_pdfs, in the order of temp_pdfs, when there is any
NbMerge ==
    /\ nbPc = "merge"
    /\ IF nbTempPdfs = <<>>
       THEN UNCHANGED <<nbDoc, nbOut>>
       ELSE \E ok \in BOOLEAN :
               /\ nbDoc' = IF ok THEN [k \in 1..Len(nbTempPdfs) |->
                                          [gen |-> nbTempPdfs[k].gen,
                                           page |-> nbTempPdfs[k].page]]
                           ELSE <<>>
               /\ nbOut' = IF ok THEN {"pdf"} ELSE {}
    /\ nbPc' = IF NoteDue THEN "note" ELSE "cleanup"
    /\ UNCHANGED <<nbVersion, nbContent, nbPdfs, nbTodo, nbIdx, nbTempPdfs, nbTempDir,
                   nbDirExists, nbRaising, nbCalls>>
    /\ UNCHANGED notNotebook

\* the <safe_name>_unsupported.txt note; a failed write is logged
NbNote ==
    /\ nbPc = "note"
    /\ \E ok \in BOOLEAN :
        nbOut' = IF ok THEN nbOut \cup {"unsupported"} ELSE nbOut
    /\ nbPc' = "cleanup"
    /\ UNCHANGED <<nbVersion, nbContent, nbPdfs, nbTodo, nbIdx, nbTempPdfs, nbTempDir,
                   nbDirExists, nbDoc, nbRaising, nbCalls>>
    /\ UNCHANGED notNotebook

\* an exception that no handler inside the try block catches
\* (KeyboardInterrupt), raised in one of the loops, in the merge, in the note
\* or after them on the way out of the try block: control passes to the
\* finally block
NbRaise ==
    /\ nbPc \in {"v5", "v6", "v4", "pdfs", "merge", "note", "cleanup"}
    /\ ~nbRaising
    /\ nbRaising' = TRUE
    /\ nbPc' = "cleanup"
    /\ UNCHANGED <<nbVersion, nbContent, nbPdfs, nbTodo, nbIdx, nbTempPdfs, nbTempDir,
                   nbDirExists, nbDoc, nbOut, nbCalls>>
    /\ UNCHANGED notNotebook

\* the files of the first k entries of temp_pdfs
Tracked(k) == {[gen |-> nbTempPdfs[j].gen, i |-> nbTempPdfs[j].i, ext |-> "pdf"] :
                  j \in 1..k}

\* the finally block, all of it inside one try: the files of temp_pdfs are
\* unlinked in the order of the list, then temp_pages is removed with rmdir.
\* The first unlink that raises ends the block with the files after it and
\* the directory in place (unlinked < Len(temp_pdfs)); rmdir raises on a
\* directory that is not empty, and can raise on an empty one. The error is
\* logged.
NbCleanup ==
    /\ nbPc = "cleanup"
    /\ \E unlinked \in 0..Len(nbTempPdfs), rmdir_ok \in BOOLEAN :
        /\ nbTempDir' = nbTempDir \ Tracked(unlinked)
        /\ nbDirExists' = \/ unlinked < Len(nbTempPdfs)
                          \/ nbTempDir' # {}
                          \/ ~rmdir_ok
    /\ nbPc' = IF nbRaising THEN "raised" ELSE "returned"
    /\ UNCHANGED <<nbVersion, nbContent, nbPdfs, nbTodo, nbIdx, nbTempPdfs, nbDoc, nbOut,
                   nbRaising, nbCalls>>
    /\ UNCHANGED notNotebook

(***************************************************************************)
(* The notebook identification of the download loop of backup_files, over  *)
(* every path of PathTable.                                                *)
(***************************************************************************)
AllPaths == DOMAIN PathTable

\* files_to_sync: one object, or two different ones
TrackLists ==
    {<<a>> : a \in AllPaths}
        \cup {<<ab[1], ab[2]>> : ab \in {x \in AllPaths \X AllPaths : x[1] # x[2]}}

TrackIdle ==
    /\ tkPc = "off"
    /\ tkQueue = <<>>
    /\ tkGot = {}
    /\ tkUpdated = {}

TrackInit ==
    /\ tkPc = "loop"
    /\ tkQueue \in TrackLists
    /\ tkGot = {}
    /\ tkUpdated = {}

\* one iteration whose scp get succeeds
TrackTransferred ==
    /\ tkPc = "loop"
    /\ LET p == Head(tkQueue)
       IN  /\ tkGot' = tkGot \cup {p}
           /\ tkUpdated' = IF notebook_uuid(p) # <<>>
                           THEN tkUpdated \cup {notebook_uuid(p)} ELSE tkUpdated
    /\ tkQueue' = Tail(tkQueue)
    /\ tkPc' = IF Tail(tkQueue) = <<>> THEN "done" ELSE "loop"
    /\ UNCHANGED notTrack

\* one iteration whose scp get raises OSError or SCPException
TrackFailed ==
    /\ tkPc = "loop"
    /\ tkQueue' = Tail(tkQueue)
    /\ tkPc' = IF Tail(tkQueue) = <<>> THEN "done" ELSE "loop"
    /\ UNCHANGED <<tkGot, tkUpdated>>
    /\ UNCHANGED notTrack

(***************************************************************************)
(* hybrid_converter.organize_notebooks_by_structure, called twice on the   *)
(* same backup with the descriptors in two orders.                         *)
(***************************************************************************)
\* values of the 'parent' field of a descriptor of the backup: a uuid of the
\* backup, the empty string, the trash marker (which has no descriptor)
OrgParents == Uuids \cup {"", "trash"}

\* find_notebooks' order, and every permutation of it
GlobOrder == <<"a", "b", "c">>
InputOrders ==
    {[i \in 1..Len(GlobOrder) |-> GlobOrder[f[i]]] :
        f \in {g \in [1..Len(GlobOrder) -> 1..Len(GlobOrder)] :
                  \A i, j \in 1..Len(GlobOrder) : i # j => g[i] # g[j]}}

Unset == [u \in Uuids |-> "unset"]

\* descriptors get_folder_hierarchy looks up only among the items visited
descriptors_visited(seen) == seen

\* descriptors get_folder_hierarchy can look up: the <uuid>.metadata files of
\* the backup, whatever the loop has visited
descriptors(seen) == Uuids

RECURSIVE returns(_, _, _)
\* whether the while loop of get_folder_hierarchy is left within n bodies
returns(u, known, n) ==
    IF u = "" \/ u \notin known THEN TRUE
    ELSE IF n = 0 THEN FALSE
    ELSE returns(ogParent[u], known, n - 1)

RECURSIVE get_folder_hierarchy(_, _)
\* the hierarchy the loop builds from current_uuid = u, for a loop that is left
get_folder_hierarchy(u, known) ==
    IF u = "" \/ u \notin known THEN <<>>
    ELSE get_folder_hierarchy(ogParent[u], known)
             \o (IF u \in ogBlank THEN <<>> ELSE <<u>>)

OrganizeIdle ==
    /\ ogPc = "off"
    /\ ogParent = [u \in Uuids |-> ""]
    /\ ogBlank = {}
    /\ ogDocs = {}
    /\ ogInputs = <<GlobOrder, GlobOrder>>
    /\ ogCall = 0
    /\ ogTodo = <<>>
    /\ ogSeen = {}
    /\ ogFolder = <<Unset, Unset>>

OrganizeInit ==
    /\ ogPc = "ready"
    /\ ogParent \in [Uuids -> OrgParents]
    /\ ogBlank \in {{}, {"b"}}
    /\ ogDocs \in SUBSET Uuids
    /\ \E other \in InputOrders : ogInputs = <<GlobOrder, other>>
    /\ ogCall = 0
    /\ ogTodo = <<>>
    /\ ogSeen = {}
    /\ ogFolder = <<Unset, Unset>>

\* organize_notebooks_by_structure is called on the next input sequence
OrganizeCall ==
    /\ ogPc \in {"ready", "returned"}
    /\ ogCall < Len(ogInputs)
    /\ ogCall' = ogCall + 1
    /\ ogTodo' = ogInputs[ogCall + 1]
    /\ ogSeen' = {}
    /\ ogPc' = "loop"
    /\ UNCHANGED <<ogParent, ogBlank, ogDocs, ogInputs, ogFolder>>
    /\ UNCHANGED notOrganize

\* one iteration of `for item in notebooks`: a DocumentType item gets its
\* folder_path from get_folder_hierarchy, which returns or loops for ever
OrganizeItem ==
    /\ ogPc = "loop"
    /\ LET u == Head(ogTodo)
           known == descriptors(ogSeen)
       IN  IF u \in ogDocs /\ ~returns(ogParent[u], known, Cardinality(Uuids))
           THEN /\ ogPc' = "looping"
                /\ UNCHANGED <<ogTodo, ogSeen, ogFolder>>
           ELSE /\ ogFolder' = IF u \in ogDocs
                               THEN [ogFolder EXCEPT ![ogCall][u] =
                                        get_folder_hierarchy(ogParent[u], known)]
                               ELSE ogFolder
                /\ ogTodo' = Tail(ogTodo)
                /\ ogSeen' = ogSeen \cup {u}
                /\ ogPc' = IF Tail(ogTodo) = <<>> THEN "returned" ELSE "loop"
    /\ UNCHANGED <<ogParent, ogBlank, ogDocs, ogInputs, ogCall>>
    /\ UNCHANGED notOrganize

(***************************************************************************)
(* The v5 and v6 page loops of convert_notebook with the template overlay  *)
(* (src/hybrid_converter.py of the package): get_page_templates, the       *)
(* template render and the overlay merge.                                  *)
(***************************************************************************)
\* the pages of the notebook
TplPages == {1, 2}
\* the 'value' of a template object: none, "Blank", an empty or null value,
\* the name of a template
TemplateValues == {"absent", "Blank", "", "P Grid"}

\* an entry of cPages.pages that is not an object (a string, a number)
NotAnObject == [id |-> 0, template |-> "none"]

\* the entries of cPages.pages: a page id with its 'template', which is missing
\* or an object without 'value' ("absent"), an object with a value, or null or
\* something else that is not an object ("null"); or an entry that is itself
\* not an object
TplEntries == [id : TplPages, template : TemplateValues \cup {"null"}] \cup {NotAnObject}

\* the lists cPages.pages can hold: every entry at most once
ContentLists ==
    {s \in UNION {[1..n -> TplEntries] : n \in 0..(Cardinality(TplPages) + 1)} :
        \A i, j \in 1..Len(s) : i # j => s[i].id # s[j].id}

\* page.get("id") or template_info.get("value", "Blank") raises AttributeError
EntryRaises(e) == e = NotAnObject \/ e.template = "null"

RECURSIVE FillTemplates(_, _)
\* the loop of get_page_templates inside its try block: each entry stores
\* template_info.get("value", "Blank") under its page id; an entry that raises
\* ends the loop, and what was stored before it is what is returned
FillTemplates(entries, page_templates) ==
    IF entries = <<>> \/ EntryRaises(Head(entries)) THEN page_templates
    ELSE FillTemplates(Tail(entries),
                       [page_templates EXCEPT ![Head(entries).id] =
                            IF Head(entries).template = "absent" THEN "Blank"
                            ELSE Head(entries).template])

\* get_page_templates(content_path)
get_page_templates(entries) == FillTemplates(entries, [p \in TplPages |-> "absent"])

\* page_templates.get(page_id, "Blank")
template_name(p) == IF tpTemplates[p] = "absent" THEN "Blank" ELSE tpTemplates[p]

\* a template is applied unless its name is empty
has_template_nonempty(name) == name # ""

\* `if template_name and template_name != "Blank"`
has_template(name) == name # "" /\ name # "Blank"

RECURSIVE PagesOf(_, _)
\* the pages of a generation, in the order of the file list
PagesOf(gen, p) ==
    IF p \notin TplPages THEN <<>>
    ELSE (IF tpGen[p] = gen THEN <<p>> ELSE <<>>) \o PagesOf(gen, p + 1)

\* the lists the 'pages' key of .content can give: the listed page ids whose
\* .rm file exists, in the order of the file; <<>> when .content has no such
\* key or cannot be read
TplOrders ==
    {s \in UNION {[1..n -> TplPages] : n \in 0..Cardinality(TplPages)} :
        \A i, j \in 1..Len(s) : i # j => s[i] # s[j]}

\* what each templated loop iterates over: ordered_v5_pages, which holds the
\* pages .content lists, whatever their version, and notebook["v5_files"] only
\* when that list is empty; and notebook["v6_files"]
TplTodo(stage) ==
    IF stage = "v5" THEN (IF tpOrder # <<>> THEN tpOrder ELSE PagesOf(5, 1))
    ELSE IF stage = "v6" THEN PagesOf(6, 1)
    ELSE <<>>

\* the first templated loop from this one on that has something to visit
TplEnter(stage) ==
    IF stage = "v5" /\ TplTodo("v5") # <<>> THEN "v5"
    ELSE IF stage \in {"v5", "v6"} /\ TplTodo("v6") # <<>> THEN "v6"
    ELSE "done"

TplAfter(stage) == IF stage = "v5" THEN TplEnter("v6") ELSE "done"

TemplateIdle ==
    /\ tpPc = "off"
    /\ tpRenderer = FALSE
    /\ tpContent = <<>>
    /\ tpTemplates = [p \in TplPages |-> "absent"]
    /\ tpOrder = <<>>
    /\ tpGen = [p \in TplPages |-> 5]
    /\ tpTodo = <<>>
    /\ tpCalls = {}
    /\ tpTemp = <<>>
    /\ tpConverted = 0

TemplateInit ==
    /\ tpPc = "start"
    /\ tpRenderer \in BOOLEAN
    /\ tpContent \in ContentLists
    /\ tpTemplates = [p \in TplPages |-> "absent"]
    /\ tpOrder \in TplOrders
    /\ tpGen \in [TplPages -> Versions]
    /\ tpTodo = <<>>
    /\ tpCalls = {}
    /\ tpTemp = <<>>
    /\ tpConverted = 0

\* the head of the try block: page_templates is read from .content when a
\* renderer was passed, ordered_v5_pages is built, and the first loop is
\* entered
TemplateLoad ==
    /\ tpPc = "start"
    /\ tpTemplates' = IF tpRenderer THEN get_page_templates(tpContent)
                      ELSE [p \in TplPages |-> "absent"]
    /\ tpPc' = TplEnter("v5")
    /\ tpTodo' = TplTodo(TplEnter("v5"))
    /\ UNCHANGED <<tpRenderer, tpContent, tpOrder, tpGen, tpCalls, tpTemp, tpConverted>>
    /\ UNCHANGED notTemplate

\* one iteration of a page loop: the page converter returned converted; for a
\* converted page with a renderer and a template that is not Blank the
\* template is rendered and, if that succeeded, merged under the content
TemplateStep(stage, converted, rendered, merged) ==
    LET p == Head(tpTodo)
        wanted == converted /\ tpRenderer /\ has_template(template_name(p))
    IN  /\ tpCalls' = tpCalls
                         \cup (IF wanted THEN {[page |-> p, call |-> "render"]} ELSE {})
                         \cup (IF wanted /\ rendered
                               THEN {[page |-> p, call |-> "overlay"]} ELSE {})
        /\ tpTemp' = IF ~converted THEN tpTemp
                     ELSE IF wanted /\ rendered /\ merged
                          THEN Append(tpTemp, [page |-> p, file |-> "final"])
                          ELSE Append(tpTemp, [page |-> p, file |-> "content"])
        /\ tpConverted' = IF converted THEN tpConverted + 1 ELSE tpConverted
        /\ tpTodo' = IF Tail(tpTodo) # <<>> THEN Tail(tpTodo) ELSE TplTodo(TplAfter(stage))
        /\ tpPc' = IF Tail(tpTodo) # <<>> THEN stage ELSE TplAfter(stage)
        /\ UNCHANGED <<tpRenderer, tpContent, tpTemplates, tpOrder, tpGen>>
        /\ UNCHANGED notTemplate

\* the v5 loop: convert_v5_file_with_rmrl, then the template
TemplateV5 ==
    /\ tpPc = "v5"
    /\ tpTodo # <<>>
    /\ \E converted, rendered, merged \in BOOLEAN :
        TemplateStep("v5", converted, rendered, merged)

\* the v6 loop: convert_v6_file_with_rmc, then the template
TemplateV6 ==
    /\ tpPc = "v6"
    /\ tpTodo # <<>>
    /\ \E converted, rendered, merged \in BOOLEAN :
        TemplateStep("v6", converted, rendered, merged)

(***************************************************************************)
(* The output files of convert_notebook over the notebooks of one run:     *)
(* safe_name, the output directory, <safe_name>.pdf and                    *)
(* <safe_name>_unsupported.txt.                                            *)
(***************************************************************************)
\* the notebooks of the run, in the order of the loop; a uuid is its first
\* eight characters and the rest
OutNotebooks == << <<"11111111", "a">>, <<"11111111", "b">>, <<"22222222", "c">> >>
OutIds == {OutNotebooks[i] : i \in 1..Len(OutNotebooks)}

\* display names: sequences of characters
OutNames == { <<"N">>, <<"N", "!">>, <<"N", " ">>, <<"M">>, <<"?">> }
\* folder paths organize_notebooks_by_structure gives
OutFolders == {"", "Work"}

\* c.isalnum() or c in (' ', '-', '_')
IsKept(ch) == ch \in {"N", "M", " "}

RECURSIVE rstrip(_)
\* str.rstrip()
rstrip(str) ==
    IF str # <<>> /\ str[Len(str)] = " " THEN rstrip(SubSeq(str, 1, Len(str) - 1)) ELSE str

\* safe_name: the kept characters of the name, right-stripped, and
\* notebook_<uuid[:8]> when nothing is left
safe_name(u, name) ==
    LET kept == rstrip(SelectSeq(name, IsKept))
    IN  IF kept # <<>> THEN kept ELSE <<"notebook_", u[1]>>

\* final_pdf and unsupported_info of a notebook
final_pdf(u) ==
    [dir |-> ouFolder[u], base |-> safe_name(u, ouName[u]), suffix |-> ".pdf"]
unsupported_info(u) ==
    [dir |-> ouFolder[u], base |-> safe_name(u, ouName[u]), suffix |-> "_unsupported.txt"]

OutPaths == {final_pdf(u) : u \in OutIds} \cup {unsupported_info(u) : u \in OutIds}

OutputIdle ==
    /\ ouPc = "off"
    /\ ouName = [u \in OutIds |-> <<"N">>]
    /\ ouFolder = [u \in OutIds |-> ""]
    /\ ouNoteDue = {}
    /\ ouTodo = <<>>
    /\ ouWriters = <<>>

OutputInit ==
    /\ ouPc = "document"
    /\ ouName \in [OutIds -> OutNames]
    /\ ouFolder \in [OutIds -> OutFolders]
    /\ ouNoteDue \in {{}, {OutNotebooks[1]}, OutIds}
    /\ ouTodo = OutNotebooks
    /\ ouWriters = [f \in OutPaths |-> {}]

\* convert_notebook up to the merge: merge_pdfs writes final_pdf when there
\* is a page to merge and the merge succeeds
OutputDocument ==
    /\ ouPc = "document"
    /\ ouTodo # <<>>
    /\ \E written \in BOOLEAN :
        ouWriters' = IF written
                     THEN [ouWriters EXCEPT ![final_pdf(Head(ouTodo))] = @ \cup {Head(ouTodo)}]
                     ELSE ouWriters
    /\ ouPc' = "note"
    /\ UNCHANGED <<ouName, ouFolder, ouNoteDue, ouTodo>>
    /\ UNCHANGED notOutput

\* the unsupported-versions note of the notebook, then the next notebook
OutputNote ==
    /\ ouPc = "note"
    /\ \E written \in BOOLEAN :
        ouWriters' = IF written /\ Head(ouTodo) \in ouNoteDue
                     THEN [ouWriters EXCEPT
                              ![unsupported_info(Head(ouTodo))] = @ \cup {Head(ouTodo)}]
                     ELSE ouWriters
    /\ ouTodo' = Tail(ouTodo)
    /\ ouPc' = IF Tail(ouTodo) = <<>> THEN "done" ELSE "document"
    /\ UNCHANGED <<ouName, ouFolder, ouNoteDue>>
    /\ UNCHANGED notOutput

(***************************************************************************)
(* The specifications.                                                     *)
(***************************************************************************)
Init == SyncInit /\ HierIdle /\ PdfIdle /\ ConvIdle /\ NotebookIdle /\ TrackIdle /\ OrganizeIdle /\ TemplateIdle /\ OutputIdle

SyncIdle ==
    /\ pc = "off"
    /\ remote = [p \in Paths |-> AbsentRemote]
    /\ localFs = [p \in Paths |-> NoLocal]
    /\ data = EmptyData
    /\ disk = MissingDisk
    /\ FreshRun
    /\ runs = 0
    /\ envCount = 0
    /\ prev = NoPrev
    /\ persisted = {}
    /\ lastTimedOut = {}

Next ==
    \/ StartRun
    \/ ListAndResolve
    \/ Decide
    \/ DownloadOne
    \/ SaveOpen
    \/ SaveWrite
    \/ Convert
    \/ ConvertEnd
    \/ Abort
    \/ NewProcess
    \/ RemoteChange
    \/ LocalDamage

Spec == Init /\ [][Next]_vars

\* the backup run with the history of converter timeouts
NextRetry ==
    \/ StartRun
    \/ ListAndResolve
    \/ Decide
    \/ DownloadOne
    \/ SaveOpen
    \/ SaveWrite
    \/ Convert
    \/ ConvertEnd
    \/ Abort
    \/ NewProcessNoting
    \/ RemoteChange
    \/ LocalDamage

SpecRetry == Init /\ [][NextRetry]_vars

InitHier == HierInit /\ SyncIdle /\ PdfIdle /\ ConvIdle /\ NotebookIdle /\ TrackIdle /\ OrganizeIdle /\ TemplateIdle /\ OutputIdle

NextHier ==
    \/ GetFolderHierarchyStep
    \/ BuildFolderPathStep

SpecHier == InitHier /\ [][NextHier]_vars

InitPdf == PdfInit /\ SyncIdle /\ HierIdle /\ ConvIdle /\ NotebookIdle /\ TrackIdle /\ OrganizeIdle /\ TemplateIdle /\ OutputIdle

NextPdf ==
    \/ PdfStart
    \/ WholeDocumentAttempt
    \/ PerPageAttempt
    \/ WriteInfo

SpecPdf == InitPdf /\ [][NextPdf]_vars

InitConv == ConvInit /\ SyncIdle /\ HierIdle /\ PdfIdle /\ NotebookIdle /\ TrackIdle /\ OrganizeIdle /\ TemplateIdle /\ OutputIdle

NextConv ==
    \/ LoadUpdated
    \/ FindAndFilter
    \/ ConvertNext

SpecConv == InitConv /\ [][NextConv]_vars

InitNotebook == NotebookInit /\ SyncIdle /\ HierIdle /\ PdfIdle /\ ConvIdle /\ TrackIdle /\ OrganizeIdle /\ TemplateIdle /\ OutputIdle

NextNotebook ==
    \/ NbStart
    \/ NbConvertV5
    \/ NbConvertV6
    \/ NbConvertV4
    \/ NbCopyPdf
    \/ NbMerge
    \/ NbNote
    \/ NbRaise
    \/ NbCleanup

SpecNotebook == InitNotebook /\ [][NextNotebook]_vars

InitTrack ==
    TrackInit /\ SyncIdle /\ HierIdle /\ PdfIdle /\ ConvIdle /\ NotebookIdle /\ OrganizeIdle /\ TemplateIdle /\ OutputIdle

NextTrack ==
    \/ TrackTransferred
    \/ TrackFailed

SpecTrack == InitTrack /\ [][NextTrack]_vars

InitOrganize ==
    /\ OrganizeInit /\ SyncIdle /\ HierIdle /\ PdfIdle /\ ConvIdle /\ NotebookIdle
    /\ TrackIdle /\ TemplateIdle /\ OutputIdle

NextOrganize ==
    \/ OrganizeCall
    \/ OrganizeItem

SpecOrganize == InitOrganize /\ [][NextOrganize]_vars

InitTemplate ==
    /\ TemplateInit /\ SyncIdle /\ HierIdle /\ PdfIdle /\ ConvIdle /\ NotebookIdle
    /\ TrackIdle /\ OrganizeIdle /\ OutputIdle

NextTemplate ==
    \/ TemplateLoad
    \/ TemplateV5
    \/ TemplateV6

SpecTemplate == InitTemplate /\ [][NextTemplate]_vars

InitOutput ==
    /\ OutputInit /\ SyncIdle /\ HierIdle /\ PdfIdle /\ ConvIdle /\ NotebookIdle
    /\ TrackIdle /\ OrganizeIdle /\ TemplateIdle

NextOutput ==
    \/ OutputDocument
    \/ OutputNote

SpecOutput == InitOutput /\ [][NextOutput]_vars

(***************************************************************************)
(* Claims about the backup run (checked under Spec).                       *)
(***************************************************************************)
Range(q) == {q[i] : i \in 1..Len(q)}

\* the positions of a run at which listing and selected are this run's
AfterResolve == {"resolved", "downloading", "saving", "writing", "backed_up",
                 "converting", "finished", "aborted"}

NothingTransferred == selected = <<>> /\ downloaded = {} /\ failedDl = {}

\* C1 as stated, read in the program's favour: a run whose remote listing
\* equals that of the run before it selects no object and performs no
\* download, when the run before it ended with backup_files successful and
\* every selected object fetched, and no local file was touched in between.
C1_Original ==
    (pc \in AfterResolve /\ prev.ok /\ prev.quiet /\ prev.listing = listing)
        => NothingTransferred

\* the four checks of the Change-Set Resolver, stated on the run's state
NoLocalFile(rf) == ~localFs[rf.path].exists
NoStoredRecord(rf) == ~data[rf.path].has
MetaDiffers(rf) == rf.mtime # data[rf.path].mtime \/ rf.size # data[rf.path].size
HashDiffers(rf) == get_file_hash(localFs[rf.path]) # data[rf.path].hash

\* C2: an object of the listing is selected exactly when it has no local
\* file, or no stored record, or its remote mtime or size differs from the
\* record, or its local hash differs from the stored hash; so an object with
\* unchanged mtime and size and a matching local hash is excluded.
C2_FourChecks ==
    pc = "resolved" =>
        /\ \A i \in 1..Len(listing) :
             (listing[i] \in Range(selected)) <=>
                (NoLocalFile(listing[i]) \/ NoStoredRecord(listing[i])
                    \/ MetaDiffers(listing[i]) \/ HashDiffers(listing[i]))
        /\ Range(selected) \subseteq Range(listing)

\* C2 witness: the resolver has decided two objects, one selected because
\* only its size differs from the record, one excluded (metadata unchanged,
\* hash matching).
C2_Witness ==
    /\ pc = "resolved"
    /\ \E i, j \in 1..Len(listing) :
        /\ listing[i] \in Range(selected)
        /\ ~NoLocalFile(listing[i]) /\ ~NoStoredRecord(listing[i])
        /\ ~HashDiffers(listing[i])
        /\ listing[i].mtime = data[listing[i].path].mtime
        /\ listing[i].size # data[listing[i].path].size
        /\ listing[j] \notin Range(selected)
        /\ localFs[listing[j].path].readable

\* C3 as stated: an object whose local file exists, whose record exists and
\* matches the remote mtime and size, and whose local file cannot be read, is
\* selected for sync, whatever hash the record holds.
C3_UnreadableSyncs ==
    pc = "resolved" =>
        \A i \in 1..Len(listing) :
            (/\ ~NoLocalFile(listing[i])
             /\ ~NoStoredRecord(listing[i])
             /\ ~MetaDiffers(listing[i])
             /\ ~localFs[listing[i].path].readable)
            => listing[i] \in Range(selected)

\* C4 as stated: after an aborted run the store file still holds every record
\* it held when the run started.
C4_AbortKeepsHistory ==
    pc = "aborted" => persisted \subseteq DiskPaths(disk)

\* C6 as stated, for runs that do not force the conversion of all notebooks: a
\* run whose transfer phase ends with no transfer and an empty changed-notebook
\* set does not invoke the converter and ends successfully.
C6_NothingChanged ==
    (/\ pc = "finished" /\ backupOk /\ downloaded = {} /\ updated = {}
     /\ ~opts.force)
        => (~conv.invoked /\ result = "ok")

\* C11 as stated (checked under SpecRetry): when the converter of the run before
\* timed out and the remote listing has not changed since, a run that asks for
\* conversion (the converter script being present) invokes the converter for
\* the notebooks of the changed-notebook set of the timed-out run.
C11_TimeoutRetried ==
    (/\ pc = "finished" /\ backupOk /\ result # "interrupted"
     /\ lastTimedOut # {}
     /\ prev.listing = listing
     /\ opts.convert /\ conv.script)
        => (conv.invoked /\ (conv.all \/ lastTimedOut \subseteq conv.ids))

\* every selected object has been attempted, each once
AllAttempted ==
    /\ downloaded \cup failedDl = SeqPaths(selected)
    /\ downloaded \cap failedDl = {}

\* C12 as stated: a failed download of one object does not stop the loop and
\* does not fail the run: metadata.save() is reached only with every selected
\* object attempted; when backup_files has returned from a run in which a
\* download failed, it reports success and the store file holds the record of every
\* object that was downloaded; and backup_files fails only on a transport
\* failure (connect, the listing command, an SSHException during a transfer).
C12_FailureIsolated ==
    /\ pc \in {"saving", "writing"} => AllAttempted
    /\ (pc = "backed_up" /\ failedDl # {}) =>
          /\ AllAttempted
          /\ backupOk
          /\ \A p \in downloaded : data[p].has /\ load(disk)[p] = data[p]
    /\ (pc = "finished" /\ ~backupOk) => fatal # "none"

\* C13 as stated: when the store file could not be written at the end of a
\* run that downloaded files (save's open or write failed), backup_files does
\* not report the run as successful.
C13_SaveFailureSurfaced ==
    (pc = "backed_up" /\ selected # <<>> /\ disk # ValidDisk(data)) => ~backupOk

\* C14 as stated: a process that starts on a store file that is missing or
\* whose content is malformed gets the empty mapping and goes on to run.
C14_LoadNeverFails ==
    (pc \in {"idle", "crashed"} /\ disk.state # "valid")
        => (pc = "idle" /\ data = EmptyData)

\* the entry of this run's listing for a path
Listed(p) == CHOOSE rf \in Range(listing) : rf.path = p

\* C15: within a run the record of a path is created or changed only in the
\* step in which the download of that path succeeds, and it then holds the
\* listing's mtime and size and the local file exists; a failed download
\* leaves every record as it was.  (The mapping is a function of the path, so
\* a path has at most one record.)
C15_RecordAfterDownload ==
    [][pc' \notin {"idle", "crashed"} =>
         \A p \in Paths :
            data'[p] # data[p] =>
               /\ p \in downloaded' \ downloaded
               /\ p \notin failedDl'
               /\ localFs'[p].exists
               /\ data'[p].has
               /\ data'[p].mtime = Listed(p).mtime
               /\ data'[p].size = Listed(p).size]_vars

\* C15 witness: a run has ended in which the download of an object that has
\* a record from an earlier run failed, and the record still holds the
\* earlier mtime, while another object was downloaded and recorded.
C15_Witness ==
    /\ pc = "backed_up"
    /\ \E p \in failedDl :
        /\ data[p].has
        /\ data[p].mtime # Listed(p).mtime
    /\ \E q \in downloaded : data[q].has /\ localFs[q].exists

\* a segment stripped of its extension
Stem(seg) == <<Head(seg)>>

\* a name of 36 characters that is neither `templates` nor `version`
IsNotebookId(name) == SegLen(name) = 36 /\ name \notin Reserved

\* the ids the rule of the claim takes from one path
IdsOf(p) ==
    LET parts == path_parts(p)
    IN  (IF IsNotebookId(Stem(parts[1])) THEN {Stem(parts[1])} ELSE {})
            \cup (IF Len(parts) >= 2 /\ IsNotebookId(parts[1]) THEN {parts[1]} ELSE {})

\* C16: the changed-notebook set holds exactly the ids of the transferred
\* paths: the first segment without its extension when it has 36 characters
\* and is not reserved, and for a path of two or more segments the undotted
\* first segment under the same rule; after the transfer of <id>.metadata or
\* of <id>/<page>.rm the id is in the set.
C16_Identified ==
    /\ tkUpdated = UNION {IdsOf(p) : p \in tkGot}
    /\ 1 \in tkGot => <<Piece("uuidA", 36)>> \in tkUpdated
    /\ 2 \in tkGot => <<Piece("uuidB", 36)>> \in tkUpdated

\* C16 witness: <uuidA>.metadata and <uuidB>/<page>.rm were both transferred
\* and both ids are in the set.
C16_Witness ==
    /\ tkPc = "done"
    /\ tkGot = {1, 2}
    /\ tkUpdated = {<<Piece("uuidA", 36)>>, <<Piece("uuidB", 36)>>}

\* the number of entries of files_to_sync for a path
TimesSelected(p) == Cardinality({j \in 1..Len(selected) : selected[j].path = p})

\* an object that was never synced: no local file, or no record
NeverSynced(p) == ~localFs[p].exists \/ ~data[p].has

\* C17: when the filter loop of backup_files has run, every object of the
\* remote listing that has no local file or no record is in files_to_sync
\* exactly once.
C17_NewIncludedOnce ==
    pc = "resolved" =>
        \A i \in 1..Len(listing) :
            NeverSynced(listing[i].path) => TimesSelected(listing[i].path) = 1

\* C17 witness: a second run lists an object synced by the first run, which is
\* passed over, and an object that has no record yet, which is selected once.
C17_Witness ==
    /\ pc = "resolved"
    /\ runs = 2
    /\ \E i \in 1..Len(listing) : TimesSelected(listing[i].path) = 0
    /\ \E i \in 1..Len(listing) :
        /\ ~data[listing[i].path].has
        /\ ~localFs[listing[i].path].exists
        /\ TimesSelected(listing[i].path) = 1

\* C26: when the filter has run, the local file of a listed object was hashed
\* exactly when the file exists, the object has a record, and the remote mtime
\* and size both equal the record's; in every other case the decision was made
\* without hashing.
C26_HashOnlyLast ==
    pc = "resolved" =>
        /\ \A i \in 1..Len(listing) :
             (listing[i].path \in hashed) <=>
                (/\ ~NoLocalFile(listing[i])
                 /\ ~NoStoredRecord(listing[i])
                 /\ ~MetaDiffers(listing[i]))
        /\ hashed \subseteq SeqPaths(listing)

\* C26 witness: a second run has resolved two objects that both have a local
\* file and a record; the one whose remote metadata changed was selected
\* without hashing, the other was hashed.
C26_Witness ==
    /\ pc = "resolved"
    /\ runs = 2
    /\ \E i, j \in 1..Len(listing) :
        /\ ~NoLocalFile(listing[i]) /\ ~NoStoredRecord(listing[i])
        /\ MetaDiffers(listing[i])
        /\ listing[i].path \notin hashed
        /\ listing[i] \in Range(selected)
        /\ ~NoLocalFile(listing[j]) /\ ~NoStoredRecord(listing[j])
        /\ listing[j].path \in hashed

\* the listing command of this run failed: the tablet holds objects and
\* remote_files is empty
ListingFailed == listing = <<>> /\ \E p \in Paths : remote[p].present

\* C27: a run whose listing command failed does not report a successful
\* backup.
C27_ListingFailureFatal ==
    (pc \in {"backed_up", "finished"} /\ ListingFailed) => (~backupOk /\ result # "ok")

\* C28: updated_notebooks holds an identifier only if an object of that
\* notebook was downloaded successfully in this run; an object whose download
\* failed contributes none.
C28_OnlyDownloaded ==
    /\ updated \subseteq UNION {IdsOf(p) : p \in downloaded}
    /\ \A p \in failedDl :
          (\A q \in downloaded : IdsOf(q) \cap IdsOf(p) = {}) => IdsOf(p) \cap updated = {}

\* C28 witness: backup_files has ended after one download failed and another
\* succeeded, and only the notebook of the latter is in updated_notebooks.
C28_Witness ==
    /\ pc = "backed_up"
    /\ backupOk
    /\ \E p \in failedDl, q \in downloaded :
        /\ IdsOf(p) # {}
        /\ updated = IdsOf(q)
        /\ IdsOf(p) \cap updated = {}

(***************************************************************************)
(* Claims about the converters.                                            *)
(***************************************************************************)
\* C5 as stated (checked under SpecConv): when a list of notebook identifiers
\* is supplied, whatever its length, every notebook convert_notebook is called
\* for has its identifier in the list.
C5_OnlyListed ==
    cvUpdated.some => Range(cvConverted) \subseteq cvUpdated.ids

\* C7 as stated (checked under SpecHier): the upward traversal executes at
\* most as many loop bodies as there are descriptors.
C7_BoundedTraversal ==
    hSteps <= Cardinality(Uuids)

\* the .rm pages of the merged document, in the order they appear in it
DocPages ==
    LET IsPage(e) == e.gen # "existing"
        kept == SelectSeq(nbDoc, IsPage)
    IN  [k \in 1..Len(kept) |-> kept[k].page]

\* the place of a page in the declared order
Rank(p) == CHOOSE k \in 1..Len(nbContent) : nbContent[k] = p

\* C8 as stated (checked under SpecNotebook): when the notebook has a page
\* order descriptor, the pages of the merged document appear in the declared
\* order, whatever the version of their files.  Stated for documents that hold
\* no page twice.
C8_DeclaredOrder ==
    (/\ nbPc = "returned"
     /\ nbContent # <<>>
     /\ \A i, j \in 1..Len(DocPages) : i # j => DocPages[i] # DocPages[j])
    => \A i, j \in 1..Len(DocPages) :
          i < j => Rank(DocPages[i]) < Rank(DocPages[j])

\* C9 as stated (checked under SpecPdf): when the per-page attempt ends with
\* at least one page converted, the page results are merged into the
\* notebook's document, which is what the dispatcher returns.
C9_PagesMerged ==
    (pdPc = "done" /\ pdPagePdfs # <<>>) => (pdDoc = "good" /\ pdRet = "whole_pdf")

\* C10 as stated (checked under SpecNotebook): when convert_notebook has
\* returned or raised, temp_pages does not exist and holds no file.
C10_TempCleaned ==
    nbPc \in {"returned", "raised"} => (~nbDirExists /\ nbTempDir = {})

RECURSIVE Ancestors(_, _)
\* the ancestors of a Document whose parent is u, root first: the chain of
\* parent pointers up to an empty parent, the trash marker, or an id that has
\* no descriptor; n bounds the length of the chain
Ancestors(u, n) ==
    IF n = 0 \/ u = "" \/ u = "trash" \/ u \notin hKnown THEN <<>>
    ELSE Append(Ancestors(hParent[u], n - 1), u)

\* the sanitized display name of a folder: empty when no character is kept
SafeName(u) == IF u \in hBlank THEN "" ELSE u

SafeNames(chain) == [i \in 1..Len(chain) |-> SafeName(chain[i])]

NonEmpty(name) == name # ""

\* C18 as stated: the path returned is the list of the sanitized names of all
\* ancestors, root first.
C18_Original ==
    hPc = "done" => hPath = SafeNames(Ancestors(hStart, Cardinality(Uuids)))

\* C18: the path returned lists, root first, the sanitized display names of
\* the ancestors reached by walking parent pointers until the parent is
\* empty, is the trash marker or has no descriptor, leaving out the ancestors
\* whose sanitized name is empty; the chain Doc -> a -> b -> root gives
\* <<b, a>>, and a Document at the root gives the empty list.
C18_FolderPath ==
    hPc = "done" =>
        /\ hPath = SelectSeq(SafeNames(Ancestors(hStart, Cardinality(Uuids))), NonEmpty)
        /\ hStart = "" => hPath = <<>>

\* C18 witness: the walk from a Document in folder a, itself in folder b at
\* the root, has ended with <<b, a>>.
C18_Witness ==
    /\ hPc = "done"
    /\ hStart = "a"
    /\ hParent["a"] = "b"
    /\ hParent["b"] = ""
    /\ hPath = <<"b", "a">>

\* C19: when organize_notebooks_by_structure has returned for both orderings
\* of the same descriptors, every Document has the same folder path in both.
C19_OrderIndependent ==
    (ogPc = "returned" /\ ogCall = 2) =>
        \A u \in Uuids : ogFolder[1][u] = ogFolder[2][u]

\* C19 witness: both calls have returned, the second on another ordering in
\* which a Document comes before its folder, and the Document lies two folders
\* deep.
C19_Witness ==
    /\ ogPc = "returned"
    /\ ogCall = 2
    /\ ogInputs[2] = <<"c", "b", "a">>
    /\ "c" \in ogDocs
    /\ ogFolder[2]["c"] = <<"a", "b">>

\* C20: when convert_notebook returns for a notebook whose pages all have
\* version 3 and that has no PDF, no page was converted, there is no merged
\* document, and output_files holds the unsupported-versions note and nothing
\* else.
C20_V3OnlyNote ==
    (/\ nbPc = "returned"
     /\ \A p \in Pages : nbVersion[p] = 3
     /\ nbPdfs = 0) =>
        /\ nbTempPdfs = <<>>
        /\ nbDoc = <<>>
        /\ nbOut = {"unsupported"}

\* what .content declares as the template of a page: the 'template' of its
\* entry, "absent" for a page that has no entry
Declared(p) ==
    IF \E k \in 1..Len(tpContent) : tpContent[k].id = p
    THEN tpContent[CHOOSE k \in 1..Len(tpContent) : tpContent[k].id = p].template
    ELSE "absent"

\* the pages whose declared template name is absent (no entry, no template, a
\* template without a name, a null template) or "Blank"
Untemplated(p) == Declared(p) \in {"absent", "null", "Blank"}

\* C21: for a converted page whose declared template name is absent or
\* "Blank" no template render call and no overlay merge call is made, and the
\* page enters the merge list as the unmodified content page.
C21_BlankUntouched ==
    \A p \in TplPages :
        Untemplated(p) =>
            /\ \A c \in tpCalls : c.page # p
            /\ \A k \in 1..Len(tpTemp) :
                  tpTemp[k].page = p => tpTemp[k].file = "content"

\* C21 witness: with a renderer at hand, a version 6 page declared "Blank"
\* and listed in .content was converted in the v5 loop and again in the v6
\* loop and stands in the merge list twice as its content page, and another
\* page with a real template was overlaid.
C21_Witness ==
    /\ tpPc = "done"
    /\ tpRenderer
    /\ Declared(1) = "Blank"
    /\ Declared(2) = "P Grid"
    /\ tpGen[1] = 6
    /\ tpOrder = <<2, 1>>
    /\ \E i, j \in 1..Len(tpTemp) :
          /\ i < j
          /\ tpTemp[i] = [page |-> 1, file |-> "content"]
          /\ tpTemp[j] = [page |-> 1, file |-> "content"]
    /\ [page |-> 2, file |-> "final"] \in Range(tpTemp)
    /\ [page |-> 2, call |-> "overlay"] \in tpCalls

\* C22: once the conversion loop of main has started, a failure of one
\* notebook does not end it: the converter never leaves with an error status,
\* and when the loop is over every notebook of the list was visited.
C22_FailureContained ==
    cvConverted # <<>> =>
        /\ cvPc # "exit1"
        /\ cvPc # "converting" => cvQueue = <<>>

\* C23: a notebook without any .rm page yields no output artifact: when
\* convert_notebook_to_pdf is over there is no document, no page file and no
\* info placeholder.
C23_EmptyNoArtifact ==
    (pdRm = 0 /\ pdPc \in {"done", "raised"}) =>
        /\ ~pdInfo
        /\ pdDoc = "absent"
        /\ pdRet # "info_path"

\* the generation a page loop of convert_notebook converts
GenerationOf(stage) ==
    CASE stage = "v5" -> 5
      [] stage = "v6" -> 6
      [] stage = "v4" -> 4
      [] OTHER -> 0

\* C24: every page handed to a page converter has the version that converter
\* is bound to (v5, v6, or v4 for the best-effort one), and a page of version
\* 3 is handed to no converter.
C24_OwnStrategyOnly ==
    \A c \in nbCalls :
        c.conv # "pdfs" =>
            /\ nbVersion[c.page] = GenerationOf(c.conv)
            /\ nbVersion[c.page] # 3

\* the loops of convert_notebook that call a converter
NbLoops == {"v5", "v6", "v4", "pdfs"}

\* convert_notebook has left its loops without an exception
LoopsOver == nbPc \in {"merge", "note", "returned"} \/ (nbPc = "cleanup" /\ ~nbRaising)

\* C25: a page whose conversion failed or timed out adds nothing to the merge
\* list and to the counters (the merge list holds one entry per successful
\* call and no other), and the failure stops nothing: when the loops are over
\* every file of every loop was handed to its converter.
C25_FailedPageSkipped ==
    /\ \A k \in 1..Len(nbTempPdfs) :
          \E c \in nbCalls :
             c.ok /\ c.page = nbTempPdfs[k].page /\ Prefix(c.conv) = nbTempPdfs[k].gen
    /\ Len(nbTempPdfs) = Cardinality({c \in nbCalls : c.ok})
    /\ LoopsOver =>
          \A stage \in NbLoops : \A f \in Range(Todo(stage)) :
             \E c \in nbCalls : c.page = f /\ c.conv = stage

\* C25 witness: the conversion of the first of two v6 pages failed, the
\* second was converted after it, and the notebook was returned with the one
\* page in its document.
C25_Witness ==
    /\ nbPc = "returned"
    /\ [page |-> 1, conv |-> "v6", ok |-> FALSE] \in nbCalls
    /\ [page |-> 2, conv |-> "v6", ok |-> TRUE] \in nbCalls
    /\ Len(nbTempPdfs) = 1
    /\ Len(nbDoc) = 1

\* C29: no output document and no sidecar note is written by two different
\* notebooks of one conversion run.
C29_DistinctOutputs ==
    \A f \in DOMAIN ouWriters : Cardinality(ouWriters[f]) <= 1

\* results['v5_converted'] and its siblings: the entries a loop appended
Converted(stage) ==
    Cardinality({k \in 1..Len(nbTempPdfs) : nbTempPdfs[k].gen = Prefix(stage)})

\* C30: no page is converted twice, the merged document holds no page twice,
\* and for each generation the converted count is at most the number of pages
\* classified to it.
C30_AtMostOnce ==
    /\ \A p \in Pages :
          Cardinality({c \in nbCalls : c.page = p /\ c.conv # "pdfs" /\ c.ok}) <= 1
    /\ \A i, j \in 1..Len(DocPages) : i # j => DocPages[i] # DocPages[j]
    /\ \A stage \in {"v5", "v6", "v4"} :
          Converted(stage) <= Len(FilesOf(GenerationOf(stage)))

====
